---- MODULE Spec2Model ----
(***************************************************************************)
(* Verification model of the claude-statusline plugin: the hook entry      *)
(* points (SessionStart / UserPromptSubmit), the native statusline main,   *)
(* the token estimator, the configuration resolver and the progress-bar    *)
(* renderer.                                                               *)
(***************************************************************************)
EXTENDS Integers, Sequences, FiniteSets, TLC

(***************************************************************************)
(* JavaScript number arithmetic.                                           *)
(*                                                                         *)
(* Every percentage and every glyph count of the program is computed as    *)
(*     Math.round((a / b) * n)                                             *)
(* on IEEE-754 doubles: the quotient is rounded to 53 significant bits,    *)
(* the product is rounded again, and Math.round then rounds half up.  The  *)
(* operators below compute exactly that.  A positive double is held as     *)
(*     [top, limbs, exp],  value = (top * 2^45 + limbs) * 2^(exp - 52)     *)
(* with 128 <= top < 256 (the leading 8 bits) and `limbs` five base-512    *)
(* digits (the other 45 bits), so that no intermediate value leaves the    *)
(* range of the model checker's integers.  Operands are below 2^20.        *)
(***************************************************************************)

\* Radix of a limb (2^9) and range of the leading limb (2^7 .. 2^8 - 1).
RECURSIVE Pow2(_)
Pow2(k) == IF k = 0 THEN 1 ELSE 2 * Pow2(k - 1)

LimbBase == Pow2(9)
TopMin == Pow2(7)
TopMax == Pow2(8)

Abs(i) == IF i < 0 THEN -i ELSE i

\* Largest t >= 0 with b * 2^t <= a (for a >= b > 0).
RECURSIVE ShiftDown(_, _, _)
ShiftDown(a, b, t) == IF 2 * b <= a THEN ShiftDown(a, 2 * b, t + 1) ELSE t

\* Smallest s >= 0 with a * 2^s >= b.
RECURSIVE ShiftUp(_, _, _)
ShiftUp(a, b, s) == IF a >= b THEN s ELSE ShiftUp(2 * a, b, s + 1)

\* Long division: the next n base-512 digits of r / d (r < d), with the
\* final remainder.
RECURSIVE DivLimbs(_, _, _, _)
DivLimbs(r, d, n, acc) ==
  IF n = 0 THEN [limbs |-> acc, rem |-> r]
  ELSE DivLimbs((r * LimbBase) % d, d, n - 1,
                Append(acc, (r * LimbBase) \div d))

\* limbs + 1; carry = 1 when the carry runs out of the most significant limb.
RECURSIVE IncLimbs(_, _)
IncLimbs(limbs, i) ==
  IF i = 0 THEN [limbs |-> limbs, carry |-> 1]
  ELSE IF limbs[i] < LimbBase - 1
       THEN [limbs |-> [limbs EXCEPT ![i] = limbs[i] + 1], carry |-> 0]
       ELSE IncLimbs([limbs EXCEPT ![i] = 0], i - 1)

\* Round-to-nearest, ties-to-even: `guard` is the first discarded bit and
\* `sticky` tells whether any later discarded bit is set.
RoundSig(top, limbs, e, guard, sticky) ==
  LET up  == guard = 1 /\ (sticky \/ (limbs[5] % 2) = 1)
      inc == IncLimbs(limbs, 5)
  IN IF ~up THEN [top |-> top, limbs |-> limbs, exp |-> e]
     ELSE IF inc.carry = 0 THEN [top |-> top, limbs |-> inc.limbs, exp |-> e]
     ELSE IF top + 1 < TopMax
          THEN [top |-> top + 1, limbs |-> inc.limbs, exp |-> e]
          ELSE [top |-> TopMin, limbs |-> inc.limbs, exp |-> e + 1]

\* The double nearest to a / b, for integers a > 0, b > 0.
DivD(a, b) ==
  LET t   == IF a >= b THEN ShiftDown(a, b, 0) ELSE 0
      s   == IF a >= b THEN 0 ELSE ShiftUp(a, b, 0)
      num == a * Pow2(s)
      den == b * Pow2(t)
      r0  == (num - den) * TopMin
      q   == DivLimbs(r0 % den, den, 5, <<>>)
  IN RoundSig(TopMin + (r0 \div den), q.limbs, t - s,
              IF 2 * q.rem >= den THEN 1 ELSE 0,
              2 * q.rem # den /\ q.rem # 0)

\* limbs * n + carry-in, least significant limb first: the five low limbs
\* of the product and the carry into the leading limb.
RECURSIVE MulLimbs(_, _, _, _)
MulLimbs(limbs, n, i, carry) ==
  IF i = 0 THEN [limbs |-> limbs, carry |-> carry]
  ELSE LET t == limbs[i] * n + carry
       IN MulLimbs([limbs EXCEPT ![i] = t % LimbBase], n, i - 1,
                   t \div LimbBase)

\* Shift (top, limbs) right one bit at a time until top < 2^8, keeping the
\* last bit shifted out (guard) and whether any earlier one was set (sticky).
RECURSIVE Normalize(_, _, _, _, _)
Normalize(top, limbs, e, guard, sticky) ==
  IF top < TopMax THEN RoundSig(top, limbs, e, guard, sticky)
  ELSE Normalize(top \div 2,
                 [i \in 1..5 |->
                    (limbs[i] \div 2) +
                    (IF i = 1 THEN top % 2 ELSE limbs[i - 1] % 2) * (LimbBase \div 2)],
                 e + 1, limbs[5] % 2, sticky \/ guard = 1)

\* The double nearest to x * n, for a double x > 0 and an integer 0 < n < 2^12.
MulD(x, n) ==
  LET p == MulLimbs(x.limbs, n, 5, 0)
  IN Normalize(x.top * n + p.carry, p.limbs, x.exp, 0, FALSE)

\* The leading 26 bits of the significand, and whether any of the other 27
\* is set.
High(x) == (x.top * LimbBase + x.limbs[1]) * LimbBase + x.limbs[2]
LowSet(x) == x.limbs[3] + x.limbs[4] + x.limbs[5] > 0

\* Math.round(x) for a double 0 < x < 2^25: floor(x + 0.5).
RoundD(x) ==
  IF x.exp < -1 THEN 0
  ELSE LET f == 25 - x.exp
       IN (High(x) \div Pow2(f)) + ((High(x) \div Pow2(f - 1)) % 2)

\* Math.round(-x) for a double 0 < x < 2^25: a tie goes towards +Infinity.
RoundNegD(x) ==
  IF x.exp < -1 THEN 0
  ELSE LET f    == 25 - x.exp
           half == (High(x) \div Pow2(f - 1)) % 2
           more == (High(x) % Pow2(f - 1)) # 0 \/ LowSet(x)
       IN -((High(x) \div Pow2(f)) + (IF half = 1 /\ more THEN 1 ELSE 0))

\* The doubles that are no finite number.  The model checker compares
\* integers with integers only, so each is an integer no computation of the
\* model reaches; every operator a NaN can flow into tests for it first, as
\* every comparison with NaN is false and every sum with NaN is NaN.
NaN == -Pow2(30)
Infinity == Pow2(30)
IsNaN(x) == x = NaN

\* Math.round((a / b) * n) for integers a, b, n with n >= 0.  A zero divisor
\* gives NaN (0/0, or Infinity * 0) or an infinity.
JSRoundMulDiv(a, b, n) ==
  IF IsNaN(a) \/ IsNaN(b) \/ IsNaN(n) THEN NaN
  ELSE IF b = 0 THEN (IF a = 0 \/ n = 0 THEN NaN
                      ELSE IF a > 0 THEN Infinity ELSE -Infinity)
  ELSE IF a = 0 \/ n = 0 THEN 0
  ELSE LET y == MulD(DivD(Abs(a), Abs(b)), n)
       IN IF (a > 0) = (b > 0) THEN RoundD(y) ELSE RoundNegD(y)

(***************************************************************************)
(* JavaScript strings.  A string is a sequence of one-character strings;   *)
(* `Undefined` stands for an absent field or an unset environment variable *)
(* (a sequence that is no string, as its element is not one character).    *)
(***************************************************************************)

Undefined == <<"undefined">>

\* A value that is a number where a string is expected.
NumberValue == <<"number">>
IsString(v) == v # Undefined /\ v # NumberValue

Digits == <<"0", "1", "2", "3", "4", "5", "6", "7", "8", "9">>
IsDigit(c) == \E i \in 1..10 : Digits[i] = c
DigitVal(c) == (CHOOSE i \in 1..10 : Digits[i] = c) - 1

\* \s of a JavaScript regular expression, and the StrWhiteSpaceChar that
\* parseInt and trim skip.
IsSpace(c) == c \in {" ", "\t", "\n"}

\* Truthiness of a value that is a string or undefined.
Truthy(s) == s # Undefined /\ s # <<>>

\* String.prototype.includes
Includes(s, key) ==
  \E i \in 0..(Len(s) - Len(key)) : SubSeq(s, i + 1, i + Len(key)) = key

RECURSIVE SkipSpaces(_)
SkipSpaces(s) ==
  IF s # <<>> /\ IsSpace(Head(s)) THEN SkipSpaces(Tail(s)) ELSE s

\* The value of the longest prefix of decimal digits of s, continuing acc.
RECURSIVE DigitsPrefix(_, _)
DigitsPrefix(s, acc) ==
  IF s # <<>> /\ IsDigit(Head(s))
  THEN DigitsPrefix(Tail(s), 10 * acc + DigitVal(Head(s)))
  ELSE acc

\* parseInt(s, 10): leading white space is skipped, then an optional sign,
\* then the longest run of digits; NaN when there is no digit.
ParseInt(s) ==
  LET t    == SkipSpaces(s)
      neg  == t # <<>> /\ Head(t) = "-"
      u    == IF t # <<>> /\ Head(t) \in {"-", "+"} THEN Tail(t) ELSE t
  IN IF u = <<>> \/ ~IsDigit(Head(u)) THEN NaN
     ELSE IF neg THEN -DigitsPrefix(u, 0) ELSE DigitsPrefix(u, 0)

(***************************************************************************)
(* Token utilities (hooks/utils/token.ts).                                 *)
(***************************************************************************)

Min(a, b) == IF a <= b THEN a ELSE b

\* text.replace(/\s+/g, " "): `inRun` tells whether the previous character
\* was white space.
RECURSIVE CollapseSpaces(_, _)
CollapseSpaces(s, inRun) ==
  IF s = <<>> THEN <<>>
  ELSE IF IsSpace(Head(s))
       THEN (IF inRun THEN <<>> ELSE <<" ">>) \o CollapseSpaces(Tail(s), TRUE)
       ELSE <<Head(s)>> \o CollapseSpaces(Tail(s), FALSE)

RECURSIVE TrimEnd(_)
TrimEnd(s) ==
  IF s # <<>> /\ IsSpace(s[Len(s)]) THEN TrimEnd(SubSeq(s, 1, Len(s) - 1)) ELSE s

\* String.prototype.trim
Trim(s) == TrimEnd(SkipSpaces(s))

\* Math.ceil(n / 4) for an integer n >= 0 (exact in doubles).
Ceil4(n) == (n + 3) \div 4

\* estimateTokens without the replace of white-space runs: only trimmed.
estimateTokensUncollapsed(text) ==
  IF ~Truthy(text) THEN 0
  ELSE Ceil4(Len(Trim(text)))

estimateTokens(text) ==
  IF ~Truthy(text) THEN 0
  ELSE Ceil4(Len(Trim(CollapseSpaces(text, FALSE))))

\* Case folding of the /i flag, on the letters of "token".
LowerCase(c) ==
  CASE c = "T" -> "t" [] c = "O" -> "o" [] c = "K" -> "k"
    [] c = "E" -> "e" [] c = "N" -> "n" [] c = "S" -> "s" [] OTHER -> c

\* The end of the run of digits that starts at position i of s.
RECURSIVE DigitRunEnd(_, _)
DigitRunEnd(s, i) ==
  IF i < Len(s) /\ IsDigit(s[i + 1]) THEN DigitRunEnd(s, i + 1) ELSE i

\* The end of \d+(?:,\d+)* when its first run of digits ends at j.
RECURSIVE GroupsEnd(_, _)
GroupsEnd(s, j) ==
  IF j + 1 < Len(s) /\ s[j + 1] = "," /\ IsDigit(s[j + 2])
  THEN GroupsEnd(s, DigitRunEnd(s, j + 2))
  ELSE j

RECURSIVE SpacesEnd(_, _)
SpacesEnd(s, j) ==
  IF j < Len(s) /\ IsSpace(s[j + 1]) THEN SpacesEnd(s, j + 1) ELSE j

TokenWord == <<"t", "o", "k", "e", "n">>

\* Whether /(\d+(?:,\d+)*)\s*tokens?/i matches s starting at position i.  The
\* quantifiers are greedy and giving characters back never helps: what
\* follows a shortened run is a digit or a comma, neither of which the rest
\* of the pattern accepts.
MatchesAt(s, i) ==
  /\ IsDigit(s[i])
  /\ LET k == SpacesEnd(s, GroupsEnd(s, DigitRunEnd(s, i)))
     IN /\ k + Len(TokenWord) <= Len(s)
        /\ \A n \in 1..Len(TokenWord) : LowerCase(s[k + n]) = TokenWord[n]

RemoveCommas(s) == SelectSeq(s, LAMBDA c : c # ",")

\* parseConversationTokens whose match takes the first run of digits only,
\* as /(\d+)\s*tokens?/i would: "29,000 tokens" counts 0 and not 29000.
parseConversationTokensNoGroups(summary) ==
  IF ~Truthy(summary) THEN 0
  ELSE LET starts == {i \in 1..Len(summary) :
                        /\ IsDigit(summary[i])
                        /\ LET k == SpacesEnd(summary, DigitRunEnd(summary, i))
                           IN /\ k + Len(TokenWord) <= Len(summary)
                              /\ \A n \in 1..Len(TokenWord) :
                                    LowerCase(summary[k + n]) = TokenWord[n]}
       IN IF starts # {}
          THEN LET i == CHOOSE m \in starts : \A n \in starts : m <= n
               IN ParseInt(SubSeq(summary, i, DigitRunEnd(summary, i)))
          ELSE estimateTokens(summary)

\* summary.match(...): the capture group of the leftmost match, parsed.
parseConversationTokens(summary) ==
  IF ~Truthy(summary) THEN 0
  ELSE LET starts == {i \in 1..Len(summary) : MatchesAt(summary, i)}
       IN IF starts # {}
          THEN LET i == CHOOSE m \in starts : \A n \in starts : m <= n
               IN ParseInt(RemoveCommas(
                    SubSeq(summary, i, GroupsEnd(summary, DigitRunEnd(summary, i)))))
          ELSE estimateTokens(summary)

\* The local `current` of calculateTokenUsage: summary || "" is parsed.
RawTokenCount(summary) ==
  parseConversationTokens(IF Truthy(summary) THEN summary ELSE <<>>)

\* The clamp of calculateTokenUsage, written without it: the raw count is
\* used as it is.
calculateTokenUsageUnclamped(summary, maxTokens) ==
  LET current == RawTokenCount(summary)
  IN [current |-> current, max |-> maxTokens,
      percentage |-> JSRoundMulDiv(current, maxTokens, 100)]

calculateTokenUsage(summary, maxTokens) ==
  LET current     == RawTokenCount(summary)
      safeCurrent == Min(current, maxTokens)
  IN [current |-> safeCurrent, max |-> maxTokens,
      percentage |-> JSRoundMulDiv(safeCurrent, maxTokens, 100)]

\* getTokenUsage of the .mjs hooks: the summary's length, not its words.
getTokenUsage(summary, maxTokens) ==
  LET text      == IF Truthy(summary) THEN summary ELSE <<>>
      estimated == IF IsString(text) THEN Ceil4(Len(text)) ELSE NaN
      current   == IF IsNaN(estimated) THEN NaN ELSE Min(estimated, maxTokens)
  IN [current |-> current, max |-> maxTokens,
      percentage |-> JSRoundMulDiv(current, maxTokens, 100)]

(***************************************************************************)
(* Configuration (src/config.ts).                                          *)
(***************************************************************************)

DEFAULT_CONFIG ==
  [maxTokens |-> 200000, progressBarWidth |-> 20, showIcons |-> TRUE,
   colors |-> [low |-> "red", medium |-> "yellow", high |-> "green"]]

\* The entries of MODEL_TOKEN_LIMITS, in declaration order (the order in
\* which Object.entries yields string keys).
MODEL_TOKEN_LIMITS == <<
  [key |-> <<"c", "l", "a", "u", "d", "e", "-", "3", "-", "5", "-", "h", "a", "i", "k", "u">>,
   limit |-> 200000],
  [key |-> <<"c", "l", "a", "u", "d", "e", "-", "3", "-", "5", "-", "s", "o", "n", "n", "e", "t">>,
   limit |-> 200000],
  [key |-> <<"c", "l", "a", "u", "d", "e", "-", "3", "-", "o", "p", "u", "s">>,
   limit |-> 200000],
  [key |-> <<"c", "l", "a", "u", "d", "e", "-", "o", "p", "u", "s", "-", "4", "-", "5">>,
   limit |-> 1000000],
  [key |-> <<"c", "l", "a", "u", "d", "e", "-", "s", "o", "n", "n", "e", "t", "-", "4", "-", "5">>,
   limit |-> 200000],
  [key |-> <<"c", "l", "a", "u", "d", "e", "-", "o", "p", "u", "s", "-", "4", "-", "6">>,
   limit |-> 1000000],
  [key |-> <<"c", "l", "a", "u", "d", "e", "-", "s", "o", "n", "n", "e", "t", "-", "4", "-", "6">>,
   limit |-> 200000] >>

\* The environment read by loadConfig: each variable is a string or unset.
\* `platform` is what getPlatform() returns.
StrTrue == <<"t", "r", "u", "e">>
StrOne == <<"1">>
StrXterm == <<"x", "t", "e", "r", "m">>

loadConfig(env) ==
  LET parsedMax   == ParseInt(env.STATUSLINE_MAX_TOKENS)
      maxTokens   == IF Truthy(env.STATUSLINE_MAX_TOKENS) /\ ~IsNaN(parsedMax)
                     THEN parsedMax ELSE DEFAULT_CONFIG.maxTokens
      parsedWidth == ParseInt(env.STATUSLINE_PROGRESS_WIDTH)
      width       == IF /\ Truthy(env.STATUSLINE_PROGRESS_WIDTH)
                        /\ ~IsNaN(parsedWidth)
                        /\ parsedWidth > 0
                     THEN parsedWidth ELSE DEFAULT_CONFIG.progressBarWidth
      icons       == IF Truthy(env.STATUSLINE_ICONS)
                     THEN env.STATUSLINE_ICONS \in {StrTrue, StrOne}
                     ELSE DEFAULT_CONFIG.showIcons
      term        == IF Truthy(env.TERM) THEN env.TERM ELSE <<>>
      ascii       == /\ env.platform = "windows"
                     /\ ~Includes(term, StrXterm)
                     /\ ~Truthy(env.WT_SESSION)
  IN [maxTokens |-> maxTokens, progressBarWidth |-> width,
      showIcons |-> IF ascii THEN FALSE ELSE icons,
      colors |-> DEFAULT_CONFIG.colors]

\* The loop of getMaxTokensForModel from entry i on.
RECURSIVE FirstMatchFrom(_, _)
FirstMatchFrom(model, i) ==
  IF i > Len(MODEL_TOKEN_LIMITS) THEN DEFAULT_CONFIG.maxTokens
  ELSE IF Includes(model, MODEL_TOKEN_LIMITS[i].key)
       THEN MODEL_TOKEN_LIMITS[i].limit
       ELSE FirstMatchFrom(model, i + 1)

\* The table searched with the last matching entry winning.
getMaxTokensForModelLastWins(model) ==
  LET hits == { i \in 1..Len(MODEL_TOKEN_LIMITS) :
                  Includes(model, MODEL_TOKEN_LIMITS[i].key) }
  IN IF hits = {} THEN DEFAULT_CONFIG.maxTokens
     ELSE MODEL_TOKEN_LIMITS[CHOOSE i \in hits : \A j \in hits : j <= i].limit

getMaxTokensForModel(model) == FirstMatchFrom(model, 1)

\* updateConfigForModel that leaves the configured maximum alone when no
\* table key matches the model.
updateConfigForModelKnownOnly(config, model) ==
  IF \E i \in 1..Len(MODEL_TOKEN_LIMITS) : Includes(model, MODEL_TOKEN_LIMITS[i].key)
  THEN [config EXCEPT !.maxTokens = getMaxTokensForModel(model)]
  ELSE config

\* { ...config, maxTokens: modelMax }: a new object.
updateConfigForModel(config, model) ==
  [config EXCEPT !.maxTokens = getMaxTokensForModel(model)]

(***************************************************************************)
(* Progress bars (src/lib/formatters.ts, scripts/statusline.mjs).          *)
(*                                                                         *)
(* A rendered text is a sequence of cells: a cell is one glyph or one ANSI *)
(* escape sequence.                                                        *)
(***************************************************************************)

RESET == "ESC[0m"
Null == "null"

FilledGlyph == "filled-block"
EmptyGlyph == "light-shade"
RectFilledGlyph == "black-parallelogram"
RectEmptyGlyph == "white-parallelogram"

\* brailleChars, emptiest first.
brailleChars ==
  <<"braille-78", "braille-378", "braille-3678", "braille-23678",
    "braille-235678", "braille-1235678", "braille-12345678">>

BarGlyphs ==
  {FilledGlyph, EmptyGlyph, RectFilledGlyph, RectEmptyGlyph}
    \cup {brailleChars[i] : i \in 1..Len(brailleChars)}

\* The cells of the bar in a rendered text: its escape sequences and the
\* brackets around the bar removed.
BarCells(text) == SelectSeq(text, LAMBDA c : c \in BarGlyphs)

\* String.prototype.repeat for a count >= 0.
Repeat(glyph, n) == [i \in 1..n |-> glyph]

\* colors.<name>: the escape sequence the color function opens with.
ColorCode(name) ==
  CASE name = "gray"   -> "ESC[90m"
    [] name = "yellow" -> "ESC[93m"
    [] name = "orange" -> "ESC[38;5;208m"
    [] name = "red"    -> "ESC[91m"
    [] name = "green"  -> "ESC[92m"
    [] name = "peach"  -> "ESC[38;2;222;115;86m"
    [] name = "black"  -> "ESC[30m"
    [] name = "white"  -> "ESC[37m"
    [] name = "purple" -> "ESC[95m"
    [] name = "lightGray" -> "ESC[97m"

\* getProgressBarColor with the caution tier reaching up to 70 included.
getProgressBarColorShifted(percentage, colorMode) ==
  IF colorMode = "progressive"
  THEN (IF percentage < 50 THEN ColorCode("gray")
        ELSE IF percentage <= 70 THEN ColorCode("yellow")
        ELSE IF percentage < 90 THEN ColorCode("orange")
        ELSE ColorCode("red"))
  ELSE IF colorMode \in {"green", "yellow", "peach", "black", "white"}
       THEN ColorCode(colorMode)
       ELSE ColorCode("red")

getProgressBarColor(percentage, colorMode) ==
  IF colorMode = "progressive"
  THEN (IF percentage < 50 THEN ColorCode("gray")
        ELSE IF percentage < 70 THEN ColorCode("yellow")
        ELSE IF percentage < 90 THEN ColorCode("orange")
        ELSE ColorCode("red"))
  ELSE IF colorMode \in {"green", "yellow", "peach", "black", "white"}
       THEN ColorCode(colorMode)
       ELSE ColorCode("red")

getProgressBarBackground(background) ==
  CASE background = "dark"   -> "ESC[40m"
    [] background = "gray"   -> "ESC[100m"
    [] background = "light"  -> "ESC[47m"
    [] background = "blue"   -> "ESC[44m"
    [] background = "purple" -> "ESC[45m"
    [] background = "cyan"   -> "ESC[46m"
    [] background = "peach"  -> "ESC[48;2;222;115;86m"
    [] OTHER -> Null

\* bgFn ? bgFn(colorFn(run)) : colorFn(run)
Paint(run, colorFn, bgFn) ==
  IF bgFn = Null THEN <<colorFn>> \o run \o <<RESET>>
  ELSE <<bgFn, colorFn>> \o run \o <<RESET, RESET>>

\* Math.floor((a / b) * n) for integers 0 <= a, 0 < b, 0 <= n: the count the
\* bar would show were the product truncated instead of rounded.
FloorMulDiv(a, b, n) == (a * n) \div b

\* The two-glyph bar of the filled and rectangle styles, with its locals.
TwoGlyphBar(filled, length, full, hollow, percentage, colorMode, background) ==
  LET empty   == length - filled
      colorFn == getProgressBarColor(percentage, colorMode)
      bgFn    == getProgressBarBackground(background)
  IN [filled |-> filled, empty |-> empty,
      text |-> Paint(Repeat(full, filled), colorFn, bgFn)
                 \o Paint(Repeat(hollow, empty), colorFn, bgFn)]

formatProgressBarFilledFloor(percentage, length, colorMode, background) ==
  TwoGlyphBar(FloorMulDiv(percentage, 100, length), length,
              FilledGlyph, EmptyGlyph, percentage, colorMode, background)

formatProgressBarFilled(percentage, length, colorMode, background) ==
  TwoGlyphBar(JSRoundMulDiv(percentage, 100, length), length,
              FilledGlyph, EmptyGlyph, percentage, colorMode, background)

formatProgressBarRectangle(percentage, length, colorMode, background) ==
  TwoGlyphBar(JSRoundMulDiv(percentage, 100, length), length,
              RectFilledGlyph, RectEmptyGlyph, percentage, colorMode, background)

\* totalSteps and currentStep of the braille style.
BrailleLevels == Len(brailleChars) - 1
BrailleStep(percentage, length) ==
  JSRoundMulDiv(percentage, 100, length * BrailleLevels)

\* The braille bar for a given count of empty cells, with its locals.
BrailleBar(percentage, length, emptyBlocks, colorMode, background) ==
  LET currentStep  == BrailleStep(percentage, length)
      fullBlocks   == currentStep \div BrailleLevels
      partialIndex == currentStep % BrailleLevels
      colorFn      == getProgressBarColor(percentage, colorMode)
      bgFn         == getProgressBarBackground(background)
      fullPart     == Paint(Repeat(brailleChars[Len(brailleChars)], fullBlocks),
                            colorFn, bgFn)
      partialPart  == IF partialIndex > 0
                      THEN Paint(<<brailleChars[partialIndex + 1]>>, colorFn, bgFn)
                      ELSE <<>>
      emptyPart    == IF emptyBlocks > 0
                      THEN Paint(Repeat(brailleChars[1], emptyBlocks), colorFn, bgFn)
                      ELSE <<>>
  IN [currentStep |-> currentStep, fullBlocks |-> fullBlocks,
      partialIndex |-> partialIndex, emptyBlocks |-> emptyBlocks,
      text |-> fullPart \o partialPart \o emptyPart]

\* The braille style with the partial cell left out of the count of empty
\* cells.
formatProgressBarBrailleNoPartial(percentage, length, colorMode, background) ==
  BrailleBar(percentage, length,
             length - (BrailleStep(percentage, length) \div BrailleLevels),
             colorMode, background)

formatProgressBarBraille(percentage, length, colorMode, background) ==
  LET currentStep == BrailleStep(percentage, length)
  IN BrailleBar(percentage, length,
                length - (currentStep \div BrailleLevels)
                  - (IF currentStep % BrailleLevels > 0 THEN 1 ELSE 0),
                colorMode, background)

formatProgressBar(percentage, length, style, colorMode, background) ==
  IF style = "rectangle"
  THEN formatProgressBarRectangle(percentage, length, colorMode, background)
  ELSE IF style = "braille"
       THEN formatProgressBarBraille(percentage, length, colorMode, background)
       ELSE formatProgressBarFilled(percentage, length, colorMode, background)

\* createProgressBar of the statusline script (and getProgressBar of the
\* .mjs hooks, which is the same code): `[bar]` in one color.
createProgressBar(percentage, width) ==
  LET filled == JSRoundMulDiv(percentage, 100, width)
      empty  == width - filled
      color  == IF percentage >= 75 THEN ColorCode("red")
                ELSE IF percentage >= 25 THEN ColorCode("yellow")
                ELSE ColorCode("green")
  IN [filled |-> filled, empty |-> empty,
      text |-> <<color, "[">> \o Repeat(FilledGlyph, filled)
                 \o Repeat(EmptyGlyph, empty) \o <<"]", RESET>>]

(***************************************************************************)
(* Formatters: formatPath of the hooks (hooks/utils/git.ts), formatPath,   *)
(* formatDuration and formatBranch of the native renderer (formatters.ts), *)
(* formatTokenCount and formatTokenUsage (hooks/utils/token.ts).  A text   *)
(* is a sequence of characters; an escape sequence is one element of it.   *)
(***************************************************************************)

\* Number.prototype.toString for an integer.
RECURSIVE NatToString(_)
NatToString(n) ==
  IF n < 10 THEN <<Digits[n + 1]>>
  ELSE NatToString(n \div 10) \o <<Digits[(n % 10) + 1]>>

NumberToString(n) ==
  IF IsNaN(n) THEN <<"N", "a", "N">>
  ELSE IF n < 0 THEN <<"-">> \o NatToString(-n)
  ELSE NatToString(n)

\* String.prototype.split on the characters of `seps`: empty pieces are kept.
RECURSIVE SplitOn(_, _)
SplitOn(s, seps) ==
  IF \A i \in 1..Len(s) : s[i] \notin seps THEN <<s>>
  ELSE LET i == CHOOSE m \in 1..Len(s) :
                  s[m] \in seps /\ \A n \in 1..(m - 1) : s[n] \notin seps
       IN <<SubSeq(s, 1, i - 1)>> \o SplitOn(SubSeq(s, i + 1, Len(s)), seps)

\* Array.prototype.join
RECURSIVE Join(_, _)
Join(parts, sep) ==
  IF parts = <<>> THEN <<>>
  ELSE IF Len(parts) = 1 THEN parts[1]
  ELSE parts[1] \o sep \o Join(Tail(parts), sep)

\* String.prototype.startsWith
StartsWith(s, prefix) ==
  Len(prefix) <= Len(s) /\ SubSeq(s, 1, Len(prefix)) = prefix

\* formatPath of the hooks with the middle kept: every deep path is shown
\* in full.
gitFormatPathWhole(relativePath) ==
  IF relativePath = <<".">> THEN <<"~">> ELSE <<"~", "/">> \o relativePath

\* formatPath(relativePath) of hooks/utils/git.ts.
gitFormatPath(relativePath) ==
  IF relativePath = <<".">> THEN <<"~">>
  ELSE LET segments == SplitOn(relativePath, {"/"})
       IN IF Len(segments) <= 2 THEN <<"~", "/">> \o relativePath
          ELSE <<"~", "/">> \o segments[1] \o <<"/", ".", ".", ".", "/">>
                 \o segments[Len(segments)]

Ellipsis == "ellipsis"

\* formatPath of the native renderer whose truncated mode keeps the last
\* segment only.
formatPathLastOnly(path, mode, home, sep) ==
  LET formattedPath == IF home # <<>> /\ StartsWith(path, home)
                       THEN <<"~">> \o SubSeq(path, Len(home) + 1, Len(path))
                       ELSE path
      NonEmpty(s)   == s # <<>>
  IN IF mode = "basename"
     THEN LET segments == SelectSeq(SplitOn(path, {"/", "\\"}), NonEmpty)
          IN IF segments # <<>>
             THEN segments[Len(segments)] ELSE path
     ELSE LET segments == SelectSeq(SplitOn(formattedPath, {"/", "\\"}), NonEmpty)
          IN IF mode = "truncated" /\ Len(segments) > 2
             THEN <<Ellipsis>> \o <<sep>> \o segments[Len(segments)]
             ELSE formattedPath

\* formatPath(path, mode) of the native renderer; `home` is homedir() and
\* `sep` is path.sep of the process.
formatPath(path, mode, home, sep) ==
  LET formattedPath == IF home # <<>> /\ StartsWith(path, home)
                       THEN <<"~">> \o SubSeq(path, Len(home) + 1, Len(path))
                       ELSE path
      NonEmpty(s)   == s # <<>>
  IN IF mode = "basename"
     THEN LET segments == SelectSeq(SplitOn(path, {"/", "\\"}), NonEmpty)
          IN IF segments # <<>>
             THEN segments[Len(segments)] ELSE path
     ELSE LET segments == SelectSeq(SplitOn(formattedPath, {"/", "\\"}), NonEmpty)
          IN IF mode = "truncated" /\ Len(segments) > 2
             THEN <<Ellipsis>> \o <<sep>>
                    \o Join(SubSeq(segments, Len(segments) - 1, Len(segments)),
                            <<sep>>)
             ELSE formattedPath

\* formatDuration that always writes the minutes of a duration of an hour
\* or more.
formatDurationWithZeroMinutes(ms) ==
  LET minutes == ms \div 60000
      hours   == minutes \div 60
      mins    == minutes % 60
  IN IF hours > 0
     THEN NumberToString(hours) \o <<"h">> \o NumberToString(mins) \o <<"m">>
     ELSE NumberToString(mins) \o <<"m">>

\* formatDuration(ms) for an integer ms >= 0, where Math.floor of the
\* quotient is the integer quotient.
formatDuration(ms) ==
  LET minutes == ms \div 60000
      hours   == minutes \div 60
      mins    == minutes % 60
  IN IF hours > 0
     THEN (IF mins > 0
           THEN NumberToString(hours) \o <<"h">> \o NumberToString(mins) \o <<"m">>
           ELSE NumberToString(hours) \o <<"h">>)
     ELSE NumberToString(mins) \o <<"m">>

\* Whether the double nearest to a / b lies below a / b (the quotient was
\* rounded down), for integers a > 0, b > 0.
DivDRoundedDown(a, b) ==
  LET t   == IF a >= b THEN ShiftDown(a, b, 0) ELSE 0
      s   == IF a >= b THEN 0 ELSE ShiftUp(a, b, 0)
      num == a * Pow2(s)
      den == b * Pow2(t)
      r0  == (num - den) * TopMin
      q   == DivLimbs(r0 % den, den, 5, <<>>)
  IN /\ q.rem # 0
     /\ ~(2 * q.rem >= den /\ (2 * q.rem # den \/ (q.limbs[5] % 2) = 1))

\* (count / 1000).toFixed(0): the integer nearest to the double count / 1000,
\* the larger one of two.  A quotient that ends in .5 is a double itself,
\* and every other one is farther from a tie than the division's error.
ThousandsToFixed0(count) == NumberToString((count + 500) \div 1000)

\* (count / 1000000).toFixed(1): the number of tenths nearest to the double
\* count / 1000000, the larger one of two.  When the quotient is an odd
\* multiple of 1/20 (count = j * 50000, j odd) the digit depends on the
\* double: the larger one unless the division rounded down.
MillionsToFixed1(count) ==
  LET j      == count \div 50000
      tenths == IF count % 50000 = 0 /\ j % 2 = 1
                THEN (j \div 2) + (IF DivDRoundedDown(j, 20) THEN 0 ELSE 1)
                ELSE (count + 50000) \div 100000
  IN NumberToString(tenths \div 10) \o <<".">> \o NumberToString(tenths % 10)

\* formatTokenCount with the thousands truncated: 1500 gives "1K".
formatTokenCountTruncated(count) ==
  IF count >= 1000000 THEN MillionsToFixed1(count) \o <<"M">>
  ELSE IF count >= 1000 THEN NumberToString(count \div 1000) \o <<"K">>
  ELSE NumberToString(count)

\* formatTokenCount(count) of token.ts and of scripts/statusline.mjs, for an
\* integer count.
formatTokenCount(count) ==
  IF count >= 1000000 THEN MillionsToFixed1(count) \o <<"M">>
  ELSE IF count >= 1000 THEN ThousandsToFixed0(count) \o <<"K">>
  ELSE NumberToString(count)

formatTokenUsage(usage) ==
  NumberToString(usage.percentage) \o <<"%", " ", "(">>
    \o formatTokenCount(usage.current) \o <<"/">>
    \o formatTokenCount(usage.max) \o <<")">>

\* colors.<name>(text)
Colored(name, text) == <<ColorCode(name)>> \o text \o <<RESET>>

\* formatBranch of the native renderer that writes the marker and the counts
\* whatever git.hasChanges is.
formatBranchAlwaysDirty(git, gitConfig) ==
  LET branch  == IF gitConfig.showBranch THEN Colored("lightGray", git.branch)
                 ELSE <<>>
      marker  == IF gitConfig.showDirtyIndicator
                 THEN Colored("purple", <<"*">>) ELSE <<>>
      totalAdded   == git.staged.added + git.unstaged.added
      totalDeleted == git.staged.deleted + git.unstaged.deleted
      changes ==
        (IF gitConfig.showChanges /\ totalAdded > 0
         THEN <<Colored("green", <<"+">> \o NumberToString(totalAdded))>> ELSE <<>>)
        \o (IF gitConfig.showChanges /\ totalDeleted > 0
            THEN <<Colored("red", <<"-">> \o NumberToString(totalDeleted))>> ELSE <<>>)
        \o (IF gitConfig.showStaged /\ git.staged.files > 0
            THEN <<Colored("gray", <<"~">> \o NumberToString(git.staged.files))>>
            ELSE <<>>)
        \o (IF gitConfig.showUnstaged /\ git.unstaged.files > 0
            THEN <<Colored("yellow", <<"~">> \o NumberToString(git.unstaged.files))>>
            ELSE <<>>)
  IN branch \o marker
       \o (IF changes # <<>> THEN <<" ">> \o Join(changes, <<" ">>) ELSE <<>>)

\* formatBranch(git, gitConfig) of the native renderer.
formatBranch(git, gitConfig) ==
  LET branch  == IF gitConfig.showBranch THEN Colored("lightGray", git.branch)
                 ELSE <<>>
      marker  == IF gitConfig.showDirtyIndicator
                 THEN Colored("purple", <<"*">>) ELSE <<>>
      totalAdded   == git.staged.added + git.unstaged.added
      totalDeleted == git.staged.deleted + git.unstaged.deleted
      changes ==
        (IF gitConfig.showChanges /\ totalAdded > 0
         THEN <<Colored("green", <<"+">> \o NumberToString(totalAdded))>> ELSE <<>>)
        \o (IF gitConfig.showChanges /\ totalDeleted > 0
            THEN <<Colored("red", <<"-">> \o NumberToString(totalDeleted))>> ELSE <<>>)
        \o (IF gitConfig.showStaged /\ git.staged.files > 0
            THEN <<Colored("gray", <<"~">> \o NumberToString(git.staged.files))>>
            ELSE <<>>)
        \o (IF gitConfig.showUnstaged /\ git.unstaged.files > 0
            THEN <<Colored("yellow", <<"~">> \o NumberToString(git.unstaged.files))>>
            ELSE <<>>)
  IN IF ~git.hasChanges THEN branch
     ELSE branch \o marker
            \o (IF changes # <<>> THEN <<" ">> \o Join(changes, <<" ">>) ELSE <<>>)

(***************************************************************************)
(* Git status of the native statusline (src/lib/git-status).               *)
(*                                                                         *)
(* A git world is what the git commands see in the working directory:      *)
(* `repo` tells whether it is inside a work tree, `head` whether HEAD      *)
(* resolves to a commit, `branch` is the checked-out branch (empty on a    *)
(* detached HEAD), `staged` and `unstaged` are the changed files of the    *)
(* index and of the work tree, and `broken` holds the commands that cannot *)
(* be run at all (git missing, a lock, a time-out).                        *)
(***************************************************************************)

RevParseGitDir == "git rev-parse --git-dir"
BranchShowCurrent == "git branch --show-current"
DiffIndexQuiet == "git diff-index --quiet HEAD --"
DiffIndexQuietCached == "git diff-index --quiet --cached HEAD --"
DiffNumstat == "git diff --numstat"
DiffCachedNumstat == "git diff --cached --numstat"
DiffCachedNameOnly == "git diff --cached --name-only"
DiffNameOnly == "git diff --name-only"

\* One line of `git diff --numstat`: "-" stands for the counts of a binary file.
NumstatLine(change) ==
  IF change.binary THEN <<"-", "\t", "-", "\t">> \o change.path
  ELSE NatToString(change.added) \o <<"\t">> \o NatToString(change.deleted)
         \o <<"\t">> \o change.path

NumstatLines(changes) == [i \in 1..Len(changes) |-> NumstatLine(changes[i])]
NameLines(changes) == [i \in 1..Len(changes) |-> changes[i].path]

\* execSync of a git command: the exit status and what it wrote to stdout,
\* each line ended by a newline.
RECURSIVE Lines(_)
Lines(ls) == IF ls = <<>> THEN <<>> ELSE Head(ls) \o <<"\n">> \o Lines(Tail(ls))

ExecSync(world, command) ==
  IF command \in world.broken \/ ~world.repo
    THEN [status |-> 128, stdout |-> <<>>]
  ELSE IF command = RevParseGitDir
    THEN [status |-> 0, stdout |-> <<".", "g", "i", "t", "\n">>]
  ELSE IF command = BranchShowCurrent
    THEN [status |-> 0,
          stdout |-> IF world.branch = <<>> THEN <<>> ELSE world.branch \o <<"\n">>]
  ELSE IF command = DiffIndexQuiet
    THEN [status |-> IF ~world.head THEN 128
                     ELSE IF world.staged # <<>> \/ world.unstaged # <<>> THEN 1
                     ELSE 0,
          stdout |-> <<>>]
  ELSE IF command = DiffIndexQuietCached
    THEN [status |-> IF ~world.head THEN 128
                     ELSE IF world.staged # <<>> THEN 1 ELSE 0,
          stdout |-> <<>>]
  ELSE IF command = DiffNumstat
    THEN [status |-> 0, stdout |-> Lines(NumstatLines(world.unstaged))]
  ELSE IF command = DiffCachedNumstat
    THEN [status |-> 0, stdout |-> Lines(NumstatLines(world.staged))]
  ELSE IF command = DiffCachedNameOnly
    THEN [status |-> 0, stdout |-> Lines(NameLines(world.staged))]
  ELSE [status |-> 0, stdout |-> Lines(NameLines(world.unstaged))]

\* execGit: the trimmed output, "" when execSync throws.
execGit(world, command) ==
  IF ExecSync(world, command).status # 0 THEN <<>>
  ELSE Trim(ExecSync(world, command).stdout)

\* execGitQuiet: error?.status || 1 when execSync throws.
execGitQuiet(world, command) ==
  IF ExecSync(world, command).status # 0
  THEN [exitCode |-> ExecSync(world, command).status, stdout |-> <<>>]
  ELSE [exitCode |-> 0, stdout |-> Trim(ExecSync(world, command).stdout)]

Detached == <<"d", "e", "t", "a", "c", "h", "e", "d">>
NoGit == <<"n", "o", "-", "g", "i", "t">>

getGitBranch(world) ==
  IF execGit(world, BranchShowCurrent) # <<>> THEN execGit(world, BranchShowCurrent)
  ELSE Detached

hasChanges(world) ==
  \/ execGitQuiet(world, DiffIndexQuiet).exitCode # 0
  \/ execGitQuiet(world, DiffIndexQuietCached).exitCode # 0

\* x || d for a number x
OrNumber(x, d) == IF IsNaN(x) \/ x = 0 THEN d ELSE x

\* x + y of JavaScript numbers; undefined (here NaN) makes the sum NaN.
AddNumber(x, y) == IF IsNaN(x) \/ IsNaN(y) THEN NaN ELSE x + y

\* parseInt(n, 10) || 0
ParseIntOrZero(n) == OrNumber(ParseInt(n), 0)

\* The loop of parseStats over the lines of the diff: `d` is undefined on a
\* line without a second field.
RECURSIVE parseStatsLines(_, _)
parseStatsLines(lines, acc) ==
  IF lines = <<>> THEN acc
  ELSE IF Trim(Head(lines)) = <<>> THEN parseStatsLines(Tail(lines), acc)
  ELSE LET fields == SplitOn(Head(lines), {"\t"})
           a == ParseIntOrZero(fields[1])
           d == IF Len(fields) >= 2 THEN ParseIntOrZero(fields[2]) ELSE NaN
       IN parseStatsLines(Tail(lines),
            [added |-> AddNumber(acc.added, a), deleted |-> AddNumber(acc.deleted, d)])

parseStats(diff) ==
  parseStatsLines(SplitOn(diff, {"\n"}), [added |-> 0, deleted |-> 0])

countFiles(diff) ==
  LET lines == SplitOn(diff, {"\n"})
  IN Cardinality({ i \in 1..Len(lines) : Trim(lines[i]) # <<>> })

NoChanges == [added |-> 0, deleted |-> 0, files |-> 0]

\* getGitStatusSync; `ran` lists the commands it executed, in order.
getGitStatusSync(world) ==
  IF execGitQuiet(world, RevParseGitDir).exitCode # 0
  THEN [branch |-> NoGit, hasChanges |-> FALSE, staged |-> NoChanges,
        unstaged |-> NoChanges, ran |-> <<RevParseGitDir>>]
  ELSE IF ~hasChanges(world)
  THEN [branch |-> getGitBranch(world), hasChanges |-> FALSE, staged |-> NoChanges,
        unstaged |-> NoChanges,
        ran |-> <<RevParseGitDir, BranchShowCurrent, DiffIndexQuiet,
                  DiffIndexQuietCached>>]
  ELSE LET unstagedStats == parseStats(execGit(world, DiffNumstat))
           stagedStats   == parseStats(execGit(world, DiffCachedNumstat))
       IN [branch |-> getGitBranch(world), hasChanges |-> TRUE,
           staged |-> [added |-> stagedStats.added, deleted |-> stagedStats.deleted,
                       files |-> countFiles(execGit(world, DiffCachedNameOnly))],
           unstaged |-> [added |-> unstagedStats.added,
                         deleted |-> unstagedStats.deleted,
                         files |-> countFiles(execGit(world, DiffNameOnly))],
           ran |-> <<RevParseGitDir, BranchShowCurrent, DiffIndexQuiet,
                     DiffIndexQuietCached, DiffNumstat, DiffCachedNumstat,
                     DiffCachedNameOnly, DiffNameOnly>>]

(***************************************************************************)
(* main of the .mjs hooks (hooks/session-start.mjs and                     *)
(* hooks/user-prompt-submit.mjs), from getGitInfo to the statusline.       *)
(*                                                                         *)
(* The world of getGitInfo: `repo` tells whether the working directory is  *)
(* in a work tree, `branch` is what rev-parse --abbrev-ref HEAD prints,    *)
(* `prefix` what rev-parse --show-prefix prints (empty at the root of the  *)
(* repository, otherwise the path from the root with a slash at its end),  *)
(* `dirty` whether git status --porcelain prints a line, and `throws`      *)
(* whether execSync throws.                                                *)
(***************************************************************************)

\* obj.name of JavaScript: undefined when the object has no such property.
Property(obj, name) == IF name \in DOMAIN obj THEN obj[name] ELSE Undefined

\* ${value} of a template literal, for a string or undefined.
Interpolated(value) ==
  IF value = Undefined THEN <<"u", "n", "d", "e", "f", "i", "n", "e", "d">>
  ELSE value

\* text.replace(/\/$/, "")
StripSlash(text) ==
  IF text # <<>> /\ text[Len(text)] = "/" THEN SubSeq(text, 1, Len(text) - 1)
  ELSE text

mjsGetGitInfo(world) ==
  IF world.throws
  THEN [branch |-> <<>>, root |-> <<".">>, relative |-> <<".">>, dirty |-> FALSE]
  ELSE [branch |-> IF world.repo THEN Trim(world.branch \o <<"\n">>) ELSE <<>>,
        root |-> IF world.repo THEN <<"/", "r">> ELSE <<".">>,
        relative |->
          LET printed == IF world.repo THEN world.prefix \o <<"\n">> ELSE <<".", "\n">>
          IN IF StripSlash(Trim(printed)) # <<>> THEN StripSlash(Trim(printed))
             ELSE <<".">>,
        dirty |-> world.repo /\ world.dirty]

\* getTokenUsage of the .mjs hooks for a summary of `length` characters.
getTokenUsageOfLength(length, maxTokens) ==
  [current |-> Min(Ceil4(length), maxTokens), max |-> maxTokens,
   percentage |-> JSRoundMulDiv(Min(Ceil4(length), maxTokens), maxTokens, 100)]

Bold == "ESC[1m"
White == "ESC[37m"
Bolt == "high-voltage"

\* main between the read of stdin and the write of the envelope: the parts
\* of the statusline and the statusline.
mjsStatusline(kind, length, world) ==
  LET gitInfo      == mjsGetGitInfo(world)
      tokenUsage   == getTokenUsageOfLength(length, 200000)
      progressBar  == createProgressBar(tokenUsage.percentage, 20)
      branch       == IF gitInfo.branch # <<>> THEN gitInfo.branch
                      ELSE IF kind = "session-start.mjs" THEN NoGit ELSE <<>>
      dirty        == IF gitInfo.dirty THEN <<"*">> ELSE <<>>
      relativePath == IF Property(gitInfo, "relativePath") = <<".">> THEN <<"~">>
                      ELSE <<"~", "/">> \o Interpolated(Property(gitInfo, "relativePath"))
      tokenCount   == IF tokenUsage.current >= 1000
                      THEN ThousandsToFixed0(tokenUsage.current) \o <<"K">>
                      ELSE NumberToString(tokenUsage.current)
      maxToken     == IF tokenUsage.max >= 1000000
                      THEN MillionsToFixed1(tokenUsage.max) \o <<"M">>
                      ELSE ThousandsToFixed0(tokenUsage.max) \o <<"K">>
      line         == branch \o dirty \o <<" ", " ">> \o relativePath \o <<" ", " ">>
                        \o progressBar.text \o <<" ", " ">>
                        \o NumberToString(tokenUsage.percentage)
                        \o <<"%", " ", "(">> \o tokenCount \o <<"/">> \o maxToken
                        \o <<")">>
  IN [gitInfo |-> gitInfo, tokenUsage |-> tokenUsage, progressBar |-> progressBar,
      branch |-> branch, dirty |-> dirty, relativePath |-> relativePath,
      statusline |-> IF kind = "session-start.mjs"
                     THEN <<Bold, White, Bolt, " ">> \o line \o <<RESET>>
                     ELSE line]

(***************************************************************************)
(* State.                                                                  *)
(***************************************************************************)

VARIABLES
  tkSummary,   \* token usage: the conversation summary
  tkMax,       \* token usage: the maxTokens argument
  tkBy,        \* token usage: the function that produced tkUsage
  tkRaw,       \* token usage: the count before clamping (a local)
  tkUsage,     \* token usage: the TokenUsage returned
  cfEnv,       \* configuration: the environment of the process
  cfModel,     \* configuration: input.model
  cfSummary,   \* configuration: input.conversation_summary
  cfPc,        \* configuration: position in the hook's main
  cfLoaded,    \* configuration: the object loadConfig returned
  cfConfig,    \* configuration: main's `config`
  cfLimit,     \* configuration: updateConfigForModel's `modelMax`
  cfUsage,     \* configuration: main's `tokenUsage`
  pbArgs,      \* progress bar: percentage, length, style, colorMode, background
  pbBy,        \* progress bar: the function that rendered pbBar
  pbBar,       \* progress bar: the locals of the render and the text returned
  hkKind,      \* hook: the entry point that runs
  hkStdin,     \* hook: what standard input delivers
  hkWorld,     \* hook: the working directory, git and stderr of the process
  hkEnv,       \* hook: the environment of the process
  hkPc,        \* hook: position in main
  hkInput,     \* hook: main's `input`
  hkEventName, \* hook: main's `eventName`
  hkConfig,    \* hook: main's `config`
  hkGitInfo,   \* hook: main's `gitInfo`
  hkUsage,     \* hook: main's `tokenUsage`
  hkFailed,    \* hook: the steps that failed, caught where they failed or not
  hkThrown,    \* hook: the step whose exception reached main's catch
  hkStdout,    \* hook: the envelopes written to standard output
  hkExit,      \* hook: the exit code of the process
  ntHost,      \* native: what the host still sends on stdin, and whether it closes it
  ntWorld,     \* native: working directory, git, config and transcript of the process
  ntData,      \* native: readStdin's `data`
  ntEnded,     \* native: the 'end' event of stdin has been handled
  ntTimer,     \* native: the 100 ms timer of readStdin
  ntRead,      \* native: the promise readStdin returned
  ntInput,     \* native: the value the promise resolved to
  ntPc,        \* native: position of main
  ntMaxTokens, \* native: main's `maxTokens` of the payload branch
  ntRawData,   \* native: main's `rawData`
  ntStdout,    \* native: the lines written to standard output
  ntExit,      \* native: the exit code of the process
  fmArgs,      \* formatters: the function called and its arguments
  fmBy,        \* formatters: the function that returned fmOut
  fmOut,       \* formatters: the text returned
  dsArgs,      \* display: gitInfo, fileStats, tokenUsage, config, eventName
  dsPc,        \* display: position between buildStatusline and createHookOutput
  dsDisplay,   \* display: the StatuslineDisplay buildStatusline returned
  dsOutput,    \* display: the envelope createHookOutput returned
  gsArgs,      \* git status: the function called and its argument
  gsBy,        \* git status: the function that returned gsOut
  gsOut,       \* git status: the value returned
  mjArgs,      \* .mjs hook: the entry point, the length of the summary and the git world
  mjPc,        \* .mjs hook: position of main
  mjOut,       \* .mjs hook: the parts of the statusline and the statusline
  prCwd,       \* hook probes: the cwd main passes to getGitInfo and getFileStats
  prWorld,     \* hook probes: what git reports for that directory
  prInfo,      \* hook probes: the promise of getGitInfo
  prProbe,     \* hook probes: the promises getGitInfo passes to Promise.all
  prStats,     \* hook probes: the await getFileStats is at
  prBuilt      \* hook probes: the arguments buildStatusline was called with

tokenVars == <<tkSummary, tkMax, tkBy, tkRaw, tkUsage>>
configVars ==
  <<cfEnv, cfModel, cfSummary, cfPc, cfLoaded, cfConfig, cfLimit, cfUsage>>

barVars == <<pbArgs, pbBy, pbBar>>

\* The exit code of a process that has not exited.
Running == 0 - 1

hookVars ==
  <<hkKind, hkStdin, hkWorld, hkEnv, hkPc, hkInput, hkEventName, hkConfig,
    hkGitInfo, hkUsage, hkFailed, hkThrown, hkStdout, hkExit>>

nativeVars ==
  <<ntHost, ntWorld, ntData, ntEnded, ntTimer, ntRead, ntInput, ntPc,
    ntMaxTokens, ntRawData, ntStdout, ntExit>>

formatVars == <<fmArgs, fmBy, fmOut>>

displayVars == <<dsArgs, dsPc, dsDisplay, dsOutput>>

gitVars == <<gsArgs, gsBy, gsOut>>

mjsVars == <<mjArgs, mjPc, mjOut>>

probeVars == <<prCwd, prWorld, prInfo, prProbe, prStats, prBuilt>>

vars ==
  <<tokenVars, configVars, barVars, hookVars, nativeVars, formatVars,
    displayVars,
    gitVars,
    mjsVars,
    probeVars>>

\* What the actions of one group leave alone.
NotToken ==
  <<configVars, barVars, hookVars, nativeVars, formatVars, displayVars,
    gitVars,
    mjsVars,
    probeVars>>
NotConfig ==
  <<tokenVars, barVars, hookVars, nativeVars, formatVars, displayVars,
    gitVars,
    mjsVars,
    probeVars>>
NotBar ==
  <<tokenVars, configVars, hookVars, nativeVars, formatVars, displayVars,
    gitVars,
    mjsVars,
    probeVars>>
NotHook ==
  <<tokenVars, configVars, barVars, nativeVars, formatVars, displayVars,
    gitVars,
    mjsVars,
    probeVars>>
NotNative ==
  <<tokenVars, configVars, barVars, hookVars, formatVars, displayVars,
    gitVars,
    mjsVars,
    probeVars>>
NotFormat ==
  <<tokenVars, configVars, barVars, hookVars, nativeVars, displayVars,
    gitVars,
    mjsVars,
    probeVars>>
NotDisplay ==
  <<tokenVars, configVars, barVars, hookVars, nativeVars, formatVars,
    gitVars,
    mjsVars,
    probeVars>>
NotGit ==
  <<tokenVars, configVars, barVars, hookVars, nativeVars, formatVars, displayVars,
    mjsVars,
    probeVars>>
NotMjs ==
  <<tokenVars, configVars, barVars, hookVars, nativeVars, formatVars, displayVars, gitVars,
    probeVars>>
NotProbe ==
  <<tokenVars, configVars, barVars, hookVars, nativeVars, formatVars, displayVars, gitVars, mjsVars>>

(***************************************************************************)
(* Token usage of a conversation summary.                                  *)
(***************************************************************************)

MaxPieces == 3

SummaryPieces ==
  { <<"2", "9">>, <<"9">>, <<",", "0", "0", "0">>,
    <<" ", "t", "o", "k", "e", "n", "s">>, <<"T", "o", "k", "e", "n">>,
    <<" ">>, <<"\t", "\n">>, <<"a", "b", "c", "d", "e">> }

RECURSIVE Concat(_)
Concat(ps) == IF ps = <<>> THEN <<>> ELSE Head(ps) \o Concat(Tail(ps))

Summaries ==
  { Concat(ps) : ps \in UNION { [1..n -> SummaryPieces] : n \in 0..MaxPieces } }

TokenMaxima == {1, 3, 40, 200, 200000}

NoUsage == [current |-> NaN, max |-> NaN, percentage |-> NaN]

TokenIdle ==
  /\ tkSummary = <<>>
  /\ tkMax = 0
  /\ tkBy = "idle"
  /\ tkRaw = 0
  /\ tkUsage = NoUsage

ConfigIdle ==
  /\ cfEnv = Null
  /\ cfModel = Undefined
  /\ cfSummary = Undefined
  /\ cfPc = "idle"
  /\ cfLoaded = Null
  /\ cfConfig = Null
  /\ cfLimit = NaN
  /\ cfUsage = NoUsage

BarIdle ==
  /\ pbArgs = Null
  /\ pbBy = "idle"
  /\ pbBar = Null

HookIdle ==
  /\ hkKind = "idle"
  /\ hkStdin = Null
  /\ hkWorld = Null
  /\ hkEnv = Null
  /\ hkPc = "idle"
  /\ hkInput = Null
  /\ hkEventName = Undefined
  /\ hkConfig = Null
  /\ hkGitInfo = Null
  /\ hkUsage = NoUsage
  /\ hkFailed = {}
  /\ hkThrown = "none"
  /\ hkStdout = <<>>
  /\ hkExit = Running

NativeIdle ==
  /\ ntHost = Null
  /\ ntWorld = Null
  /\ ntData = <<>>
  /\ ntEnded = FALSE
  /\ ntTimer = "idle"
  /\ ntRead = "idle"
  /\ ntInput = Null
  /\ ntPc = "idle"
  /\ ntMaxTokens = NaN
  /\ ntRawData = Null
  /\ ntStdout = <<>>
  /\ ntExit = Running

FormatIdle ==
  /\ fmArgs = Null
  /\ fmBy = "idle"
  /\ fmOut = <<>>

DisplayIdle ==
  /\ dsArgs = Null
  /\ dsPc = "idle"
  /\ dsDisplay = Null
  /\ dsOutput = Null

GitIdle ==
  /\ gsArgs = Null
  /\ gsBy = "idle"
  /\ gsOut = Null

MjsIdle ==
  /\ mjArgs = Null
  /\ mjPc = "idle"
  /\ mjOut = Null

ProbeIdle ==
  /\ prCwd = <<>>
  /\ prWorld = [repo |-> FALSE, dirty |-> FALSE]
  /\ prInfo = "idle"
  /\ prProbe = [p \in {} |-> "idle"]
  /\ prStats = "idle"
  /\ prBuilt = [called |-> FALSE]

InitToken ==
  /\ ProbeIdle
  /\ MjsIdle
  /\ GitIdle
  /\ FormatIdle
  /\ DisplayIdle
  /\ ConfigIdle
  /\ BarIdle
  /\ HookIdle
  /\ NativeIdle
  /\ tkSummary \in Summaries
  /\ tkMax \in TokenMaxima
  /\ tkBy = "none"
  /\ tkRaw = 0
  /\ tkUsage = NoUsage

CalculateTokenUsage ==
  /\ tkBy = "none"
  /\ tkBy' = "calculateTokenUsage"
  /\ tkRaw' = RawTokenCount(tkSummary)
  /\ tkUsage' = calculateTokenUsage(tkSummary, tkMax)
  /\ UNCHANGED <<tkSummary, tkMax, NotToken>>

GetTokenUsage ==
  /\ tkBy = "none"
  /\ tkBy' = "getTokenUsage"
  /\ tkRaw' = Ceil4(Len(tkSummary))
  /\ tkUsage' = getTokenUsage(tkSummary, tkMax)
  /\ UNCHANGED <<tkSummary, tkMax, NotToken>>

\* estimateTokens(text), called on its own.
EstimateTokens ==
  /\ tkBy = "none"
  /\ tkBy' = "estimateTokens"
  /\ tkRaw' = estimateTokens(tkSummary)
  /\ UNCHANGED <<tkSummary, tkMax, tkUsage, NotToken>>

NextToken == CalculateTokenUsage \/ GetTokenUsage \/ EstimateTokens

SpecToken == InitToken /\ [][NextToken]_vars

CollapsedLength(s) ==
  Cardinality({i \in 1..Len(s) : ~IsSpace(s[i])})
    + Cardinality({i \in 2..Len(s) :
                     /\ IsSpace(s[i]) /\ ~IsSpace(s[i - 1])
                     /\ \E j \in (i + 1)..Len(s) : ~IsSpace(s[j])})

\* C12: estimateTokens(s) is the least k with 4 * k >= len(t), that is
\* ceil(len(t) / 4), where t is s with every run of white space collapsed to
\* one space and then trimmed; the empty and the white-space-only string
\* give 0.
C12_EstimateIsCeilOfCollapsedLength ==
  tkBy = "estimateTokens" =>
    /\ 4 * tkRaw >= CollapsedLength(tkSummary)
    /\ 4 * (tkRaw - 1) < CollapsedLength(tkSummary)
    /\ (\A i \in 1..Len(tkSummary) : IsSpace(tkSummary[i])) => tkRaw = 0

\* A text of 13 characters with a run of two spaces inside it: 12 once
\* collapsed, so 3 and not 4.
C12_Witness ==
  /\ tkBy = "estimateTokens"
  /\ tkSummary = <<"a", "b", "c", "d", "e", " ", " ", "t", "o", "k", "e", "n", "s">>
  /\ tkRaw = 3

\* The capture a match of /(\d+(?:,\d+)*)\s*tokens?/i that starts at i can
\* have: s[i..j] is runs of digits separated by single commas, followed by
\* white space up to k and then by "token" in either case.
IsCountAt(s, i, j) ==
  /\ i <= j /\ j <= Len(s)
  /\ IsDigit(s[i]) /\ IsDigit(s[j])
  /\ \A n \in i..j : IsDigit(s[n]) \/ (s[n] = "," /\ IsDigit(s[n - 1]))
  /\ \E k \in j..Len(s) :
       /\ \A n \in (j + 1)..k : IsSpace(s[n])
       /\ k + 5 <= Len(s)
       /\ LowerCase(s[k + 1]) = "t" /\ LowerCase(s[k + 2]) = "o"
       /\ LowerCase(s[k + 3]) = "k" /\ LowerCase(s[k + 4]) = "e"
       /\ LowerCase(s[k + 5]) = "n"

HasCount(s) == \E i, j \in 1..Len(s) : IsCountAt(s, i, j)

\* The decimal value of the digits of s, its commas left out.
RECURSIVE DecimalValue(_, _)
DecimalValue(s, acc) ==
  IF s = <<>> THEN acc
  ELSE DecimalValue(Tail(s), IF Head(s) = "," THEN acc ELSE 10 * acc + DigitVal(Head(s)))

\* The count a summary states: the leftmost capture, taken as long as it
\* can be.
StatedCount(s) ==
  LET i == CHOOSE m \in 1..Len(s) :
             /\ \E j \in m..Len(s) : IsCountAt(s, m, j)
             /\ \A n \in 1..(m - 1) : \A j \in n..Len(s) : ~IsCountAt(s, n, j)
      j == CHOOSE m \in i..Len(s) :
             /\ IsCountAt(s, i, m)
             /\ \A n \in (m + 1)..Len(s) : ~IsCountAt(s, i, n)
  IN DecimalValue(SubSeq(s, i, j), 0)

MaxTokensValues ==
  { Undefined, <<>>, <<"0">>, <<"-", "5">>, <<"a", "b", "c">>,
    <<"5", "0", "0">>, <<"1", "2", "a", "b", "c">>, <<" ", "4", "0">> }

ProgressWidthValues ==
  { Undefined, <<"0">>, <<"-", "3">>, <<"x">>, <<"3", "0">>, <<"7", "p", "x">> }

\* STATUSLINE_ICONS, platform, TERM, WT_SESSION
TerminalValues ==
  { <<Undefined, "linux", StrXterm, Undefined>>,
    <<StrTrue, "windows", Undefined, Undefined>>,
    <<<<"0">>, "windows", StrXterm, Undefined>>,
    <<StrOne, "windows", Undefined, <<"w", "t">> >> }

Environments ==
  { [STATUSLINE_MAX_TOKENS |-> mt, STATUSLINE_PROGRESS_WIDTH |-> pw,
     STATUSLINE_ICONS |-> tv[1], platform |-> tv[2], TERM |-> tv[3],
     WT_SESSION |-> tv[4]] :
      mt \in MaxTokensValues, pw \in ProgressWidthValues, tv \in TerminalValues }

ModelKeys == { MODEL_TOKEN_LIMITS[i].key : i \in 1..Len(MODEL_TOKEN_LIMITS) }

ModelNames ==
  ModelKeys \cup { <<"t", "o", "t", "a", "l", "l", "y", "-", "u", "n", "k", "n", "o", "w", "n">>, <<"c", "l", "a", "u", "d", "e", "-", "o", "p", "u", "s", "-", "4">> }

ModelIds ==
  { Undefined, <<>> }
    \cup { p \o n \o s : p \in { <<>>, <<"x", "-">> }, n \in ModelNames,
                         s \in { <<>>, <<"-", "2", "0", "2", "5", "0", "9", "2", "9">> } }
    \cup { a \o <<"/">> \o b : a \in ModelKeys, b \in ModelKeys }

ConfigSummaries == { Undefined, <<"2", "9">> \o <<" ", "t", "o", "k", "e", "n", "s">> }

InitConfig ==
  /\ ProbeIdle
  /\ MjsIdle
  /\ GitIdle
  /\ FormatIdle
  /\ DisplayIdle
  /\ NativeIdle
  /\ TokenIdle
  /\ BarIdle
  /\ HookIdle
  /\ cfEnv \in Environments
  /\ cfModel \in ModelIds
  /\ cfSummary \in ConfigSummaries
  /\ cfPc = "start"
  /\ cfLoaded = Null
  /\ cfConfig = Null
  /\ cfLimit = NaN
  /\ cfUsage = NoUsage

\* let config = loadConfig();
LoadConfig ==
  /\ cfPc = "start"
  /\ cfLoaded' = loadConfig(cfEnv)
  /\ cfConfig' = loadConfig(cfEnv)
  /\ cfPc' = "loaded"
  /\ UNCHANGED <<cfEnv, cfModel, cfSummary, cfLimit, cfUsage, NotConfig>>

\* if (input.model) config = updateConfigForModel(config, input.model);
UpdateConfigForModel ==
  /\ cfPc = "loaded"
  /\ Truthy(cfModel)
  /\ cfLimit' = getMaxTokensForModel(cfModel)
  /\ cfConfig' = updateConfigForModel(cfConfig, cfModel)
  /\ cfPc' = "resolved"
  /\ UNCHANGED <<cfEnv, cfModel, cfSummary, cfLoaded, cfUsage, NotConfig>>

\* the same statement when input.model is missing or empty
KeepConfig ==
  /\ cfPc = "loaded"
  /\ ~Truthy(cfModel)
  /\ cfPc' = "resolved"
  /\ UNCHANGED <<cfEnv, cfModel, cfSummary, cfLoaded, cfConfig, cfLimit,
                 cfUsage, NotConfig>>

\* const tokenUsage = calculateTokenUsage(input.conversation_summary,
\*                                        config.maxTokens);
ConfigCalculateUsage ==
  /\ cfPc = "resolved"
  /\ cfUsage' = calculateTokenUsage(cfSummary, cfConfig.maxTokens)
  /\ cfPc' = "done"
  /\ UNCHANGED <<cfEnv, cfModel, cfSummary, cfLoaded, cfConfig, cfLimit,
                 NotConfig>>

NextConfig ==
  LoadConfig \/ UpdateConfigForModel \/ KeepConfig \/ ConfigCalculateUsage

SpecConfig == InitConfig /\ [][NextConfig]_vars

(***************************************************************************)
(* One progress bar rendered from its arguments.                           *)
(***************************************************************************)

MaxBarLength == 25

Percentages == 0..100

InitBar ==
  /\ ProbeIdle
  /\ MjsIdle
  /\ GitIdle
  /\ FormatIdle
  /\ DisplayIdle
  /\ NativeIdle
  /\ TokenIdle
  /\ ConfigIdle
  /\ HookIdle
  /\ pbArgs \in [percentage : Percentages, length : 0..MaxBarLength,
                 style : {"filled", "rectangle", "braille"},
                 colorMode : {"progressive", "green", "peach", "blue"},
                 background : {"none", "dark"}]
  /\ pbBy = "none"
  /\ pbBar = Null

FormatProgressBar ==
  /\ pbBy = "none"
  /\ pbBy' = "formatProgressBar"
  /\ pbBar' = formatProgressBar(pbArgs.percentage, pbArgs.length, pbArgs.style,
                                pbArgs.colorMode, pbArgs.background)
  /\ UNCHANGED <<pbArgs, NotBar>>

CreateProgressBar ==
  /\ pbBy = "none"
  /\ pbBy' = "createProgressBar"
  /\ pbBar' = createProgressBar(pbArgs.percentage, pbArgs.length)
  /\ UNCHANGED <<pbArgs, NotBar>>

NextBar == FormatProgressBar \/ CreateProgressBar

SpecBar == InitBar /\ [][NextBar]_vars

(***************************************************************************)
(* The hook entry points (hooks/session-start.ts, user-prompt-submit.ts    *)
(* and their .mjs counterparts).                                           *)
(*                                                                         *)
(* The text on standard input is a sequence of pieces: a white-space       *)
(* character, a character that belongs to no JSON text, or the             *)
(* serialisation of one JSON value, carried as the value it denotes.       *)
(***************************************************************************)

EmptyInput ==
  [null |-> FALSE, eventName |-> Undefined, conversation_summary |-> Undefined,
   working_directory |-> Undefined, model |-> Undefined]

NullInput == [EmptyInput EXCEPT !.null = TRUE]

Space == [kind |-> "space", value |-> EmptyInput]
Junk == [kind |-> "junk", value |-> EmptyInput]
Json(v) == [kind |-> "json", value |-> v]

\* !text.trim()
IsBlank(text) == \A i \in 1..Len(text) : text[i].kind = "space"

\* JSON.parse(text): `ok` is FALSE where it throws a SyntaxError.
JSONParse(text) ==
  LET body == SelectSeq(text, LAMBDA x : x.kind # "space")
  IN IF Len(body) = 1 /\ body[1].kind = "json"
     THEN [ok |-> TRUE, value |-> body[1].value]
     ELSE [ok |-> FALSE, value |-> EmptyInput]

\* readInput whose JSON.parse failure is not replaced by {}: the input is
\* left without a value.
readInputNoFallback(text) ==
  IF JSONParse(text).ok THEN JSONParse(text).value ELSE NullInput

\* readInput, once readStdin has returned `text`.
readInput(text) ==
  IF IsBlank(text) THEN EmptyInput
  ELSE IF JSONParse(text).ok THEN JSONParse(text).value ELSE EmptyInput

TsHooks == {"session-start.ts", "user-prompt-submit.ts"}
MjsHooks == {"session-start.mjs", "user-prompt-submit.mjs"}

SessionStart == <<"S", "e", "s", "s", "i", "o", "n", "S", "t", "a", "r", "t">>
UserPromptSubmit == <<"U", "s", "e", "r", "P", "r", "o", "m", "p", "t", "S", "u", "b", "m", "i", "t">>

\* The event name each entry point hard-codes.
HookName(kind) ==
  IF kind \in {"session-start.ts", "session-start.mjs"}
  THEN SessionStart ELSE UserPromptSubmit

MinimalEnvelope(name) ==
  [hookEventName |-> name, additionalContext |-> <<>>, systemMessage |-> <<>>]

\* The two messages of getContextWarning, each one element of a text.
ContextCriticalText ==
  "(warning sign) Context window nearly full! Consider starting a new session."
ContextLowText ==
  "(information sign) Context usage is above 75%. Some history may be summarized."

isContextCritical(usage) == ~IsNaN(usage.percentage) /\ usage.percentage >= 90

isContextLow(usage) == ~IsNaN(usage.percentage) /\ usage.percentage >= 75

\* getContextWarning with the thresholds exchanged: caution from 90,
\* critical from 75.
getContextWarningSwapped(usage) ==
  IF isContextCritical(usage) THEN ContextLowText
  ELSE IF isContextLow(usage) THEN ContextCriticalText
  ELSE Null

getContextWarning(usage) ==
  IF isContextCritical(usage) THEN ContextCriticalText
  ELSE IF isContextLow(usage) THEN ContextLowText
  ELSE Null

\* getWarningSystemMessage: the warning in bright yellow; the empty text
\* stands for null.
getWarningSystemMessage(tokenUsage) ==
  LET warning == getContextWarning(tokenUsage)
  IN IF warning # Null THEN <<"ESC[93m", warning, RESET>> ELSE <<>>

\* ICONS and ASCII_ICONS, as the source file holds them.
ICONS ==
  [branch |-> <<>>, folder |-> <<>>, insertion |-> <<"+">>,
   deletion |-> <<"-">>, modification |-> <<"~">>]
ASCII_ICONS ==
  [branch |-> <<"B", ":">>, folder |-> <<"D", ":">>, insertion |-> <<"+">>,
   deletion |-> <<"-">>, modification |-> <<"~">>]

\* formatBranch(branch, dirty) of hooks/utils/git.ts.
gitFormatBranch(branch, dirty) ==
  IF ~Truthy(branch) THEN <<>>
  ELSE IF dirty THEN branch \o <<"*">> ELSE branch

\* createProgressBar and renderProgressBar of hooks/utils/progress.ts, as
\* its tests use them: a segment of `width` cells, and "[", the filled and
\* the empty cells, "]" in the glyphs of PROGRESS_CHARS, in the color of
\* the segment.
segmentCreateProgressBar(percentage, width) ==
  LET filled == JSRoundMulDiv(percentage, 100, width)
  IN [filled |-> filled, empty |-> width - filled,
      color |-> IF percentage >= 75 THEN "low"
                ELSE IF percentage >= 25 THEN "medium" ELSE "high"]

renderProgressBar(segment, unicode, colored) ==
  LET bar == <<"[">>
               \o Repeat(IF unicode THEN FilledGlyph ELSE "#", segment.filled)
               \o Repeat(IF unicode THEN EmptyGlyph ELSE "-", segment.empty)
               \o <<"]">>
  IN IF colored
     THEN <<ColorCode(DEFAULT_CONFIG.colors[segment.color])>> \o bar \o <<RESET>>
     ELSE bar

Separator == <<" ", " ">>

\* buildStatusline whose join takes the four segments as they are, empty
\* ones too.
buildStatuslineUnfiltered(gitInfo, fileStats, tokenUsage, config) ==
  LET icons  == IF config.showIcons THEN ICONS ELSE ASCII_ICONS
      branch == IF Truthy(gitInfo.branch)
                THEN icons.branch \o <<" ">>
                       \o gitFormatBranch(gitInfo.branch, gitInfo.dirty)
                ELSE <<>>
      path   == IF Truthy(gitInfo.relativePath)
                THEN icons.folder \o <<" ">> \o gitFormatPath(gitInfo.relativePath)
                ELSE <<>>
      progressBar ==
        renderProgressBar(
          segmentCreateProgressBar(tokenUsage.percentage, config.progressBarWidth),
          config.showIcons, TRUE)
      tokenInfo == formatTokenUsage(tokenUsage)
      Stat(icon, n) == IF n > 0 THEN <<icon \o NumberToString(n)>> ELSE <<>>
      fileStatsParts ==
        Stat(icons.insertion, fileStats.insertions)
          \o Stat(icons.deletion, fileStats.deletions)
          \o Stat(icons.modification, fileStats.modifications)
  IN [branch |-> branch, path |-> path, progressBar |-> progressBar,
      tokenInfo |-> tokenInfo, fileStats |-> Join(fileStatsParts, <<" ">>),
      full |-> Join(<<branch, path, progressBar, tokenInfo>>, Separator)]

buildStatusline(gitInfo, fileStats, tokenUsage, config) ==
  LET icons  == IF config.showIcons THEN ICONS ELSE ASCII_ICONS
      branch == IF Truthy(gitInfo.branch)
                THEN icons.branch \o <<" ">>
                       \o gitFormatBranch(gitInfo.branch, gitInfo.dirty)
                ELSE <<>>
      path   == IF Truthy(gitInfo.relativePath)
                THEN icons.folder \o <<" ">> \o gitFormatPath(gitInfo.relativePath)
                ELSE <<>>
      progressBar ==
        renderProgressBar(
          segmentCreateProgressBar(tokenUsage.percentage, config.progressBarWidth),
          config.showIcons, TRUE)
      tokenInfo == formatTokenUsage(tokenUsage)
      Stat(icon, n) == IF n > 0 THEN <<icon \o NumberToString(n)>> ELSE <<>>
      fileStatsParts ==
        Stat(icons.insertion, fileStats.insertions)
          \o Stat(icons.deletion, fileStats.deletions)
          \o Stat(icons.modification, fileStats.modifications)
      parts == SelectSeq(<<branch, path, progressBar, tokenInfo>>,
                         LAMBDA s : s # <<>>)
  IN [branch |-> branch, path |-> path, progressBar |-> progressBar,
      tokenInfo |-> tokenInfo, fileStats |-> Join(fileStatsParts, <<" ">>),
      full |-> Join(parts, Separator)]

\* formatStatuslineForContext: lines.push() without an argument adds no
\* line, so the lines are the heading, `full` and the file changes.
formatStatuslineForContext(display) ==
  IF display.full = <<>> THEN <<>>
  ELSE Join(<<<<"#", "#", " ", "S", "t", "a", "t", "u", "s", "l", "i", "n", "e">>,
              display.full>>
              \o (IF display.fileStats # <<>>
                  THEN << <<"F", "i", "l", "e", " ", "c", "h", "a", "n", "g", "e", "s",
                            ":", " ">> \o display.fileStats >>
                  ELSE <<>>),
            <<"\n">>)

\* createHookOutput; a field that is not set is the empty text.
createHookOutput(display, tokenUsage, eventName) ==
  [hookEventName |-> eventName,
   additionalContext |-> formatStatuslineForContext(display),
   systemMessage |-> getWarningSystemMessage(tokenUsage)]

\* What getFileStats resolves to in each state of the world, and the value
\* main substitutes when it rejects.
FileStatsOf(git) ==
  IF git = "repo"
  THEN [insertions |-> 10, deletions |-> 0, modifications |-> 2]
  ELSE [insertions |-> 0, deletions |-> 0, modifications |-> 0]

\* What getGitInfo resolves to in each state of the world, and the value
\* main substitutes when it rejects.
GitInfoOf(git) ==
  IF git = "repo"
  THEN [branch |-> <<"m", "a", "i", "n">>, relativePath |-> <<".">>, dirty |-> TRUE]
  ELSE [branch |-> <<>>, relativePath |-> <<".">>, dirty |-> FALSE]

\* getGitInfo of the .mjs hooks: the path is returned as `relative`, so
\* `relativePath` is undefined.
MjsGitInfoOf(git) ==
  IF git = "repo"
  THEN [branch |-> <<"m", "a", "i", "n">>, relativePath |-> Undefined, dirty |-> TRUE]
  ELSE [branch |-> <<>>, relativePath |-> Undefined, dirty |-> FALSE]

HookInputs ==
  { EmptyInput, NullInput,
    [EmptyInput EXCEPT !.model = <<"c", "l", "a", "u", "d", "e", "-", "o", "p", "u", "s", "-", "4", "-", "6">>,
                       !.conversation_summary = <<"2", "9", " ", "t", "o", "k", "e", "n", "s">>],
    [EmptyInput EXCEPT !.model = NumberValue],
    [EmptyInput EXCEPT !.conversation_summary = NumberValue],
    [EmptyInput EXCEPT !.eventName = <<"C", "u", "s", "t", "o", "m">>, !.working_directory = <<"/", "w">>] }

StdinTexts ==
  { <<>>, <<Space>>, <<Junk>>, <<Space, Junk>> }
    \cup { <<Json(v), Space>> : v \in HookInputs }
    \cup { <<Json(EmptyInput), Junk>> }

HookEnvironments ==
  { e \in Environments :
      /\ e.STATUSLINE_MAX_TOKENS \in {Undefined, <<"5", "0", "0">>}
      /\ e.STATUSLINE_PROGRESS_WIDTH = Undefined
      /\ e.platform = "linux" }

InitHook ==
  /\ ProbeIdle
  /\ MjsIdle
  /\ GitIdle
  /\ FormatIdle
  /\ DisplayIdle
  /\ TokenIdle
  /\ ConfigIdle
  /\ BarIdle
  /\ NativeIdle
  /\ hkKind \in TsHooks \cup MjsHooks
  /\ hkStdin \in [fails : {FALSE}, closes : BOOLEAN, text : StdinTexts]
                   \cup {[fails |-> TRUE, closes |-> TRUE, text |-> <<>>]}
  /\ hkWorld \in [cwdOk : BOOLEAN, git : {"repo", "no-repo", "rejects"},
                  stderrOk : BOOLEAN]
  /\ hkEnv \in HookEnvironments
  /\ hkPc = "start"
  /\ hkInput = Null
  /\ hkEventName = Undefined
  /\ hkConfig = Null
  /\ hkGitInfo = Null
  /\ hkUsage = NoUsage
  /\ hkFailed = {}
  /\ hkThrown = "none"
  /\ hkStdout = <<>>
  /\ hkExit = Running

\* The exception of step `step` reaches main's catch.
Throw(step) ==
  /\ hkFailed' = hkFailed \cup {step}
  /\ hkThrown' = step
  /\ hkPc' = "catch"

\* const input = await readInput(): readStdin returns when the stream has
\* ended or failed.
HookReadInput ==
  /\ hkKind \in TsHooks
  /\ hkPc = "start"
  /\ hkStdin.closes
  /\ IF hkStdin.fails
     THEN Throw("read") /\ UNCHANGED hkInput
     ELSE /\ hkInput' = readInput(hkStdin.text)
          /\ hkPc' = "input"
          /\ UNCHANGED <<hkFailed, hkThrown>>
  /\ UNCHANGED <<hkKind, hkStdin, hkWorld, hkEnv, hkEventName, hkConfig,
                 hkGitInfo, hkUsage, hkStdout, hkExit, NotHook>>

\* eventName, loadConfig, updateConfigForModel and cwd, up to the await of
\* the git probes.
HookPrepare ==
  /\ hkPc = "input"
  /\ IF hkInput.null
     THEN Throw("input") /\ UNCHANGED <<hkEventName, hkConfig>>
     ELSE /\ hkEventName' = IF Truthy(hkInput.eventName) THEN hkInput.eventName
                            ELSE HookName(hkKind)
          /\ IF Truthy(hkInput.model) /\ ~IsString(hkInput.model)
             THEN Throw("model") /\ hkConfig' = loadConfig(hkEnv)
             ELSE /\ hkConfig' = IF Truthy(hkInput.model)
                                 THEN updateConfigForModel(loadConfig(hkEnv),
                                                           hkInput.model)
                                 ELSE loadConfig(hkEnv)
                  /\ IF ~Truthy(hkInput.working_directory) /\ ~hkWorld.cwdOk
                     THEN Throw("cwd")
                     ELSE hkPc' = "gather" /\ UNCHANGED <<hkFailed, hkThrown>>
  /\ UNCHANGED <<hkKind, hkStdin, hkWorld, hkEnv, hkInput, hkGitInfo, hkUsage,
                 hkStdout, hkExit, NotHook>>

\* await Promise.all([getGitInfo(cwd).catch(...), getFileStats(cwd).catch(...)])
HookGather ==
  /\ hkPc = "gather"
  /\ hkGitInfo' = GitInfoOf(hkWorld.git)
  /\ hkFailed' = IF hkWorld.git = "rejects" THEN hkFailed \cup {"git"} ELSE hkFailed
  /\ hkPc' = "render"
  /\ UNCHANGED <<hkKind, hkStdin, hkWorld, hkEnv, hkInput, hkEventName, hkConfig,
                 hkUsage, hkThrown, hkStdout, hkExit, NotHook>>

\* calculateTokenUsage, buildStatusline, createHookOutput, writeOutput
HookWrite ==
  /\ hkPc = "render"
  /\ IF Truthy(hkInput.conversation_summary)
          /\ ~IsString(hkInput.conversation_summary)
     THEN Throw("usage") /\ UNCHANGED <<hkUsage, hkStdout>>
     ELSE /\ hkUsage' = calculateTokenUsage(hkInput.conversation_summary,
                                            hkConfig.maxTokens)
          /\ hkStdout' = Append(hkStdout,
               createHookOutput(
                 buildStatusline(hkGitInfo, FileStatsOf(hkWorld.git), hkUsage',
                                 hkConfig),
                 hkUsage', hkEventName))
          /\ hkPc' = "written"
          /\ UNCHANGED <<hkFailed, hkThrown>>
  /\ UNCHANGED <<hkKind, hkStdin, hkWorld, hkEnv, hkInput, hkEventName, hkConfig,
                 hkGitInfo, hkExit, NotHook>>

\* formatCompactStatusline and console.error; main returns and the process
\* ends.
HookLog ==
  /\ hkPc = "written"
  /\ hkPc' = "done"
  /\ hkExit' = 0
  /\ UNCHANGED <<hkKind, hkStdin, hkWorld, hkEnv, hkInput, hkEventName, hkConfig,
                 hkGitInfo, hkUsage, hkFailed, hkThrown, hkStdout, NotHook>>

\* catch (error) { console.error(...); await writeOutput({...}) }
HookCatch ==
  /\ hkPc = "catch"
  /\ hkStdout' = Append(hkStdout, MinimalEnvelope(HookName(hkKind)))
  /\ hkPc' = "done"
  /\ hkExit' = 0
  /\ UNCHANGED <<hkKind, hkStdin, hkWorld, hkEnv, hkInput, hkEventName, hkConfig,
                 hkGitInfo, hkUsage, hkFailed, hkThrown, NotHook>>

\* main of the .mjs hooks, which is synchronous: readFileSync(0) returns
\* when the stream has ended or failed.
MjsMain ==
  /\ hkKind \in MjsHooks
  /\ hkPc = "start"
  /\ hkStdin.closes
  /\ LET input    == IF hkStdin.fails THEN EmptyInput ELSE readInput(hkStdin.text)
         usage    == getTokenUsage(IF input.null THEN Undefined
                                   ELSE input.conversation_summary, 200000)
         output   == [hookEventName |-> HookName(hkKind),
                      additionalContext |-> <<"statusline">>,
                      systemMessage |-> IF hkKind = "session-start.mjs"
                                        THEN <<"statusline">> ELSE <<>>]
         logFails == hkKind = "session-start.mjs" /\ ~hkWorld.stderrOk
     IN /\ hkInput' = input
        /\ hkEventName' = HookName(hkKind)
        /\ hkGitInfo' = MjsGitInfoOf(hkWorld.git)
        /\ hkUsage' = usage
        /\ hkFailed' = (IF hkStdin.fails THEN {"read"} ELSE {})
                         \cup (IF hkWorld.git = "rejects" THEN {"git"} ELSE {})
                         \cup (IF logFails THEN {"stderr"} ELSE {})
        /\ hkThrown' = IF logFails THEN "stderr" ELSE "none"
        /\ hkStdout' = IF logFails
                       THEN <<output, MinimalEnvelope(HookName(hkKind))>>
                       ELSE <<output>>
  /\ hkPc' = "done"
  /\ hkExit' = 0
  /\ UNCHANGED <<hkKind, hkStdin, hkWorld, hkEnv, hkConfig, NotHook>>

NextHook ==
  \/ HookReadInput
  \/ HookPrepare
  \/ HookGather
  \/ HookWrite
  \/ HookLog
  \/ HookCatch
  \/ MjsMain

SpecHook == InitHook /\ [][NextHook]_vars

(***************************************************************************)
(* The native statusline entry point (src/index.ts).                       *)
(*                                                                         *)
(* A payload is the HookInput the host serialises on standard input; a     *)
(* number that is absent is NaN, which `||` treats as it treats undefined. *)
(***************************************************************************)

\* null where a number is expected
NullNumber == NaN - 1

EmptyPayload ==
  [null |-> FALSE, workspace |-> FALSE, current_dir |-> Undefined,
   context_window |-> FALSE, current_usage |-> FALSE, input_tokens |-> NaN,
   cache_creation_input_tokens |-> NaN, cache_read_input_tokens |-> NaN,
   context_window_size |-> NaN, display_name |-> Undefined,
   total_cost_usd |-> NaN, total_duration_ms |-> NaN]

NullPayload == [EmptyPayload EXCEPT !.null = TRUE]

\* process.cwd(), when it does not throw
ProcessCwd == <<"/", "c", "w", "d">>

getFallbackInput(cwd) ==
  [EmptyPayload EXCEPT !.workspace = TRUE, !.current_dir = cwd,
                       !.display_name = <<"C", "l", "a", "u", "d", "e">>,
                       !.total_cost_usd = 0, !.total_duration_ms = 0]

\* main from the line after `await readStdin()` to its end: `threw` tells
\* whether an exception left main.
RunMain(resolved, world) ==
  LET fallback  == resolved.null \/ ~resolved.workspace
      input     == IF fallback THEN getFallbackInput(ProcessCwd) ELSE resolved
      config    == world.config
      gitStatus == getGitStatusSync(world.git)
      payload   == input.context_window /\ input.current_usage
                     /\ config.usePayloadContextWindow
      tokens    == OrNumber(input.input_tokens, 0)
                     + OrNumber(input.cache_creation_input_tokens, 0)
                     + OrNumber(input.cache_read_input_tokens, 0)
      maxTokens == OrNumber(input.context_window_size, config.maxContextTokens)
      rounded   == JSRoundMulDiv(tokens, maxTokens, 100)
      rawData   ==
        [git |-> [null |-> gitStatus.branch = NoGit,
                  branch |-> gitStatus.branch, dirty |-> gitStatus.hasChanges,
                  staged |-> gitStatus.staged, unstaged |-> gitStatus.unstaged],
         path |-> IF Truthy(input.current_dir) THEN input.current_dir ELSE ProcessCwd,
         modelName |-> IF Truthy(input.display_name) THEN input.display_name
                       ELSE <<"C", "l", "a", "u", "d", "e">>,
         cost |-> OrNumber(input.total_cost_usd, 0),
         durationMs |-> OrNumber(input.total_duration_ms, 0),
         contextTokens |-> IF payload THEN tokens ELSE world.contextData.tokens,
         contextPercentage |->
           IF payload THEN (IF IsNaN(rounded) THEN NaN ELSE Min(100, rounded))
           ELSE world.contextData.percentage]
  IN IF ~world.cwdOk /\ (fallback \/ ~Truthy(input.current_dir))
     THEN [threw |-> TRUE, maxTokens |-> NaN, rawData |-> Null, lines |-> <<>>]
     ELSE [threw |-> FALSE,
           maxTokens |-> IF payload THEN maxTokens ELSE NaN,
           rawData |-> rawData,
           lines |-> IF config.oneLine THEN <<"statusline">>
                     ELSE <<"statusline", "">>]

WithUsage(a, b, c, size) ==
  [EmptyPayload EXCEPT !.workspace = TRUE, !.current_dir = <<"/", "w">>,
                       !.context_window = TRUE, !.current_usage = TRUE,
                       !.input_tokens = a, !.cache_creation_input_tokens = b,
                       !.cache_read_input_tokens = c, !.context_window_size = size]

Payloads ==
  { NullPayload,
    [EmptyPayload EXCEPT !.workspace = TRUE, !.current_dir = <<"/", "w">>],
    [EmptyPayload EXCEPT !.workspace = TRUE],
    [EmptyPayload EXCEPT !.context_window = TRUE, !.current_usage = TRUE,
                         !.input_tokens = 1000],
    [EmptyPayload EXCEPT !.workspace = TRUE, !.current_dir = <<"/", "w">>,
                         !.context_window = TRUE, !.context_window_size = 200000],
    [EmptyPayload EXCEPT !.display_name = <<"O", "p", "u", "s">>,
                         !.total_cost_usd = 2, !.total_duration_ms = 60000],
    [EmptyPayload EXCEPT !.workspace = TRUE, !.current_dir = <<"/", "w">>,
                         !.display_name = <<"O", "p", "u", "s">>],
    [EmptyPayload EXCEPT !.workspace = TRUE, !.total_cost_usd = 2,
                         !.total_duration_ms = 60000],
    WithUsage(1000, 0, NaN, 200000),
    WithUsage(250000, NaN, NaN, 200000),
    WithUsage(150000, 150000, 1000, NaN),
    WithUsage(1000, 2000, 3000, -1) }

NativeTexts ==
  { <<>>, <<Junk>> }
    \cup { <<Json(v)>> : v \in Payloads }
    \cup { <<Json(WithUsage(1000, 0, NaN, 200000)), Space>>,
           <<Json(WithUsage(250000, NaN, NaN, 200000)), Junk>> }

\* Outside a repository; on main with changes; on a detached HEAD; on a
\* branch that is called no-git.
NativeGitWorlds ==
  { [repo |-> FALSE, head |-> FALSE, branch |-> <<>>, staged |-> <<>>,
     unstaged |-> <<>>, broken |-> {}],
    [repo |-> TRUE, head |-> TRUE, branch |-> <<"m", "a", "i", "n">>,
     staged |-> <<[added |-> 3, deleted |-> 1, binary |-> FALSE, path |-> <<"f">>]>>,
     unstaged |-> <<[added |-> 12, deleted |-> 0, binary |-> FALSE, path |-> <<"g">>],
                    [added |-> 0, deleted |-> 0, binary |-> TRUE, path |-> <<"b">>]>>,
     broken |-> {}],
    [repo |-> TRUE, head |-> TRUE, branch |-> <<>>, staged |-> <<>>,
     unstaged |-> <<>>, broken |-> {}],
    [repo |-> TRUE, head |-> TRUE, branch |-> NoGit, staged |-> <<>>,
     unstaged |-> <<>>, broken |-> {}] }

NativeWorlds ==
  [cwdOk : BOOLEAN, git : NativeGitWorlds,
   config : [usePayloadContextWindow : BOOLEAN, maxContextTokens : {200000},
             oneLine : BOOLEAN],
   contextData : { [tokens |-> NullNumber, percentage |-> NullNumber],
                   [tokens |-> 50000, percentage |-> 25] }]

\* main has called readStdin and awaits its promise.
InitNative ==
  /\ ProbeIdle
  /\ MjsIdle
  /\ GitIdle
  /\ FormatIdle
  /\ DisplayIdle
  /\ TokenIdle
  /\ ConfigIdle
  /\ BarIdle
  /\ HookIdle
  /\ ntHost \in [pending : NativeTexts, closes : BOOLEAN]
  /\ ntWorld \in NativeWorlds
  /\ ntData = <<>>
  /\ ntEnded = FALSE
  /\ ntTimer = "armed"
  /\ ntRead = "pending"
  /\ ntInput = Null
  /\ ntPc = "reading"
  /\ ntMaxTokens = NaN
  /\ ntRawData = Null
  /\ ntStdout = <<>>
  /\ ntExit = Running

\* resolve(value) were every call to settle the promise anew and resume
\* main with its value.
ResolveAgain(value) ==
  /\ ntRead' = "settled"
  /\ ntInput' = value
  /\ ntPc' = IF RunMain(value, ntWorld).threw THEN "failed" ELSE "done"
  /\ ntExit' = IF RunMain(value, ntWorld).threw THEN 1 ELSE ntExit
  /\ ntMaxTokens' = RunMain(value, ntWorld).maxTokens
  /\ ntRawData' = RunMain(value, ntWorld).rawData
  /\ ntStdout' = RunMain(value, ntWorld).lines

\* resolve(value): the first call settles the promise and main runs to its
\* end, or to the catch that exits with 1; a later call does nothing.
Resolve(value) ==
  IF ntRead = "pending"
  THEN /\ ntRead' = "settled"
       /\ ntInput' = value
       /\ ntPc' = IF RunMain(value, ntWorld).threw THEN "failed" ELSE "done"
       /\ ntExit' = IF RunMain(value, ntWorld).threw THEN 1 ELSE ntExit
       /\ ntMaxTokens' = RunMain(value, ntWorld).maxTokens
       /\ ntRawData' = RunMain(value, ntWorld).rawData
       /\ ntStdout' = RunMain(value, ntWorld).lines
  ELSE UNCHANGED <<ntRead, ntInput, ntPc, ntExit, ntMaxTokens, ntRawData, ntStdout>>

\* process.stdin.on("data", ...): the host delivers its next chunk.
StdinData ==
  /\ ntExit = Running
  /\ ~ntEnded
  /\ ntHost.pending # <<>>
  /\ \E k \in {1, Len(ntHost.pending)} :
       /\ ntData' = ntData \o SubSeq(ntHost.pending, 1, k)
       /\ ntHost' = [ntHost EXCEPT
                       !.pending = SubSeq(ntHost.pending, k + 1, Len(ntHost.pending))]
  /\ UNCHANGED <<ntWorld, ntEnded, ntTimer, ntRead, ntInput, ntPc, ntMaxTokens,
                 ntRawData, ntStdout, ntExit, NotNative>>

\* process.stdin.on("end", ...): the host has closed the stream.
StdinEnd ==
  /\ ntExit = Running
  /\ ~ntEnded
  /\ ntHost.pending = <<>>
  /\ ntHost.closes
  /\ ntEnded' = TRUE
  /\ Resolve(IF JSONParse(ntData).ok THEN JSONParse(ntData).value ELSE NullPayload)
  /\ UNCHANGED <<ntHost, ntWorld, ntData, ntTimer, NotNative>>

\* setTimeout(() => { if (!data) resolve(null); }, 100)
TimerFires ==
  /\ ntExit = Running
  /\ ntTimer = "armed"
  /\ ntTimer' = "fired"
  /\ IF ntData = <<>>
     THEN Resolve(NullPayload)
     ELSE UNCHANGED <<ntRead, ntInput, ntPc, ntExit, ntMaxTokens, ntRawData, ntStdout>>
  /\ UNCHANGED <<ntHost, ntWorld, ntData, ntEnded, NotNative>>

\* main has returned and nothing keeps the event loop alive: the timer has
\* fired and stdin, which has a "data" listener, has ended.
NativeExit ==
  /\ ntExit = Running
  /\ ntPc = "done"
  /\ ntTimer = "fired"
  /\ ntEnded
  /\ ntExit' = 0
  /\ UNCHANGED <<ntHost, ntWorld, ntData, ntEnded, ntTimer, ntRead, ntInput, ntPc,
                 ntMaxTokens, ntRawData, ntStdout, NotNative>>

NextNative == StdinData \/ StdinEnd \/ TimerFires \/ NativeExit

SpecNative == InitNative /\ [][NextNative]_vars

\* The entries of the table whose key is a substring of the model id.
MatchingEntries(model) ==
  { i \in 1..Len(MODEL_TOKEN_LIMITS) : Includes(model, MODEL_TOKEN_LIMITS[i].key) }

\* The limit of the matching entry declared first, 200,000 without a match.
FirstDeclaredLimit(model) ==
  IF MatchingEntries(model) = {} THEN 200000
  ELSE MODEL_TOKEN_LIMITS[CHOOSE i \in MatchingEntries(model) :
                            \A j \in MatchingEntries(model) : i <= j].limit

\* C6: whatever STATUSLINE_MAX_TOKENS and STATUSLINE_PROGRESS_WIDTH hold,
\* loadConfig keeps the default for a value that is non-numeric, zero or
\* negative, so the loaded config has maxTokens > 0 and progressBarWidth > 0
\* and the usage is never computed against a non-positive maximum.
C6_NonPositiveOverridesDiscarded ==
  cfPc \in {"loaded", "resolved", "done"} =>
    /\ cfLoaded.maxTokens > 0
    /\ cfLoaded.progressBarWidth > 0
    /\ ParseInt(cfEnv.STATUSLINE_MAX_TOKENS) <= 0
         => cfLoaded.maxTokens = DEFAULT_CONFIG.maxTokens
    /\ ParseInt(cfEnv.STATUSLINE_PROGRESS_WIDTH) <= 0
         => cfLoaded.progressBarWidth = DEFAULT_CONFIG.progressBarWidth
    /\ cfPc = "done" => cfUsage.max > 0

C8_ModelOverridesMaxTokensOnly ==
  cfPc \in {"resolved", "done"} =>
    /\ cfLoaded = loadConfig(cfEnv)
    /\ Truthy(cfModel) =>
         /\ cfConfig.maxTokens = FirstDeclaredLimit(cfModel)
         /\ cfConfig.progressBarWidth = cfLoaded.progressBarWidth
         /\ cfConfig.showIcons = cfLoaded.showIcons
         /\ cfConfig.colors = cfLoaded.colors
         /\ DOMAIN cfConfig = DOMAIN cfLoaded
    /\ ~Truthy(cfModel) => cfConfig = cfLoaded

C8_Witness ==
  /\ cfPc = "resolved"
  /\ cfLoaded.maxTokens = 500
  /\ cfLoaded.progressBarWidth = 30
  /\ Truthy(cfModel)
  /\ MatchingEntries(cfModel) = {}
  /\ cfConfig.maxTokens = 200000
  /\ cfConfig.progressBarWidth = 30

StepsBeforeWrite == {"read", "input", "model", "cwd", "git", "usage"}

\* Standard input was read and holds nothing, or no JSON text.
StdinUnusable == ~hkStdin.fails /\ ~JSONParse(hkStdin.text).ok

\* C1 as stated: when any step before the envelope is written fails
\* (reading input, loading config, probing git, computing usage, building
\* the display) the hook writes the minimal envelope and nothing else;
\* unparsable or empty stdin is no failure and gives the empty input.
C1_AnyFailureGivesMinimalEnvelope ==
  hkPc = "done" =>
    /\ hkFailed \cap StepsBeforeWrite # {}
         => hkStdout = <<MinimalEnvelope(HookName(hkKind))>>
    /\ StdinUnusable
         => hkInput = EmptyInput /\ hkFailed \cap {"read", "input"} = {}

\* C1 (amended): when a step before the envelope is written throws into
\* main's catch, the hook writes the minimal envelope, with the event name
\* it hard-codes, and nothing else; a failed git probe, and in the .mjs hooks
\* a failed read of stdin, is replaced by a default where it happens and the
\* full envelope is written; unparsable or empty stdin is no failure and
\* gives the empty input.
C1_ThrownFailureGivesMinimalEnvelope ==
  hkPc = "done" =>
    /\ hkThrown \in StepsBeforeWrite
         => hkStdout = <<MinimalEnvelope(HookName(hkKind))>>
    /\ hkThrown = "none"
         => /\ Len(hkStdout) = 1
            /\ hkStdout[1].hookEventName = hkEventName
            /\ hkStdout[1].additionalContext # <<>>
    /\ hkFailed \ {hkThrown}
         \subseteq (IF hkKind \in MjsHooks THEN {"git", "read"} ELSE {"git"})
    /\ StdinUnusable
         => hkInput = EmptyInput /\ hkFailed \cap {"read", "input"} = {}

C1_Witness ==
  /\ hkPc = "done"
  /\ hkKind = "user-prompt-submit.ts"
  /\ hkThrown = "model"
  /\ hkStdout = <<MinimalEnvelope(UserPromptSubmit)>>
  /\ hkExit = 0

\* C2: every production entry point ends with exit code 0, whether the
\* render succeeds or a step of it fails.
C2_ExitCodeAlwaysZero ==
  /\ ntExit \in {Running, 0}
  /\ hkExit \in {Running, 0}

\* C3: the read of standard input is bounded by the 100 ms timer: once the
\* timer has fired main has proceeded past the read.
C3_ReadBoundedByTimer ==
  ntTimer = "fired" => (ntRead = "settled" /\ ntPc # "reading")

\* C5: for every payload with non-negative token counts and any
\* context_window_size, the contextTokens handed to the renderer do not
\* exceed the maximum the percentage was computed against, and
\* contextPercentage is in 0..100.
C5_ContextTokensWithinMax ==
  (ntPc = "done" /\ ~IsNaN(ntMaxTokens)) =>
    /\ ntRawData.contextTokens <= ntMaxTokens
    /\ ntRawData.contextPercentage \in 0..100

(***************************************************************************)
(* The formatters, each called once on arguments of its type.              *)
(***************************************************************************)

MaxSegments == 4
MaxDurationSteps == 400
MaxCountSteps == 60

PathNames == { <<"h">>, <<"h", "x">>, <<"a">> }

SegmentLists == UNION { [1..n -> PathNames] : n \in 0..MaxSegments }

\* The relative paths getRelativePath returns: "." or segments joined by "/".
RelativePaths ==
  { <<".">> } \cup { Join(segs, <<"/">>) : segs \in SegmentLists \ {<<>>} }

\* Paths of the platform whose separator is sep, absolute or not.
NativePaths(sep) ==
  { lead \o Join(segs, <<sep>>) :
      lead \in {<<>>, <<sep>>}, segs \in SegmentLists }

Durations ==
  { 20000 * k : k \in 0..MaxDurationSteps }
    \cup { 1, 59999, 3599999, 86400000, 360000000 }

TokenCounts ==
  { 250 * k : k \in 0..MaxCountSteps }
    \cup { 1000000 + 25000 * k : k \in 0..MaxCountSteps }
    \cup { 1, 999, 1001, 1499, 1501, 200000, 999499, 999500, 999999,
           123456789 }

TokenUsages ==
  { [current |-> Min(c, m), max |-> m,
     percentage |-> JSRoundMulDiv(Min(c, m), m, 100)] :
      c \in {0, 500, 1500, 100000, 1250000}, m \in {200000, 1000000} }

GitStatuses ==
  [branch : {<<"m", "a", "i", "n">>},
   hasChanges : BOOLEAN,
   staged : [added : {0, 40}, deleted : {0, 15}, files : {0, 2}],
   unstaged : [added : {0, 2}, deleted : {0}, files : {0, 1}]]

GitConfigs ==
  [showBranch : BOOLEAN, showDirtyIndicator : BOOLEAN, showChanges : BOOLEAN,
   showStaged : BOOLEAN, showUnstaged : BOOLEAN]

FormatCalls ==
  [fn : {"gitFormatPath"}, path : RelativePaths]
    \cup UNION { [fn : {"formatPath"}, path : NativePaths(sep),
                  mode : {"full", "truncated", "basename"},
                  home : {<<>>, <<sep, "h">>}, sep : {sep}] :
                 sep \in {"/", "\\"} }
    \cup [fn : {"formatDuration"}, ms : Durations]
    \cup [fn : {"formatTokenCount"}, count : TokenCounts]
    \cup [fn : {"formatTokenUsage"}, usage : TokenUsages]
    \cup [fn : {"formatBranch"}, git : GitStatuses, gitConfig : GitConfigs]

InitFormat ==
  /\ ProbeIdle
  /\ MjsIdle
  /\ GitIdle
  /\ TokenIdle
  /\ ConfigIdle
  /\ BarIdle
  /\ HookIdle
  /\ NativeIdle
  /\ DisplayIdle
  /\ fmArgs \in FormatCalls
  /\ fmBy = "none"
  /\ fmOut = <<>>

Returns(fn, text) ==
  /\ fmBy = "none"
  /\ fmArgs.fn = fn
  /\ fmBy' = fn
  /\ fmOut' = text
  /\ UNCHANGED <<fmArgs, NotFormat>>

GitFormatPath == Returns("gitFormatPath", gitFormatPath(fmArgs.path))

FormatPath ==
  Returns("formatPath",
          formatPath(fmArgs.path, fmArgs.mode, fmArgs.home, fmArgs.sep))

FormatDuration == Returns("formatDuration", formatDuration(fmArgs.ms))

FormatTokenCount == Returns("formatTokenCount", formatTokenCount(fmArgs.count))

FormatTokenUsage == Returns("formatTokenUsage", formatTokenUsage(fmArgs.usage))

FormatBranch ==
  Returns("formatBranch", formatBranch(fmArgs.git, fmArgs.gitConfig))

NextFormat ==
  \/ GitFormatPath
  \/ FormatPath
  \/ FormatDuration
  \/ FormatTokenCount
  \/ FormatTokenUsage
  \/ FormatBranch

SpecFormat == InitFormat /\ [][NextFormat]_vars

\* C14: formatPath of the hooks gives "~" for ".", "~/" and the path itself
\* for a path with at most one "/" (1 or 2 segments), and "~/", what precedes
\* the first "/", "/.../" and what follows the last "/" for a path of 3 or
\* more segments.
C14_RelativePathKeepsFirstAndLast ==
  fmBy = "gitFormatPath" =>
    LET path    == fmArgs.path
        slashes == {i \in 1..Len(path) : path[i] = "/"}
    IN IF path = <<".">> THEN fmOut = <<"~">>
       ELSE IF Cardinality(slashes) <= 1 THEN fmOut = <<"~", "/">> \o path
       ELSE LET first == CHOOSE i \in slashes : \A j \in slashes : i <= j
                last  == CHOOSE i \in slashes : \A j \in slashes : j <= i
            IN fmOut = <<"~", "/">> \o SubSeq(path, 1, first - 1)
                         \o <<"/", ".", ".", ".", "/">>
                         \o SubSeq(path, last + 1, Len(path))

C14_Witness ==
  /\ fmBy = "gitFormatPath"
  /\ fmArgs.path = <<"h", "/", "h", "x", "/", "a", "/", "a">>
  /\ fmOut = <<"~", "/", "h", "/", ".", ".", ".", "/", "a">>

\* The segments of a path: its maximal runs of characters other than "/"
\* and "\".  SegmentStarts is where they begin, LastSegment(s, k) the k-th
\* from the end.
IsSeparator(c) == c \in {"/", "\\"}

SegmentStarts(s) ==
  {i \in 1..Len(s) : ~IsSeparator(s[i]) /\ (i = 1 \/ IsSeparator(s[i - 1]))}

LastSegment(s, k) ==
  LET from == CHOOSE i \in SegmentStarts(s) :
                Cardinality({j \in SegmentStarts(s) : j > i}) = k - 1
      to   == CHOOSE j \in from..Len(s) :
                /\ \A n \in from..j : ~IsSeparator(s[n])
                /\ (j = Len(s) \/ IsSeparator(s[j + 1]))
  IN SubSeq(s, from, to)

HomeSubstituted(path, home) ==
  IF /\ home # <<>>
     /\ Len(home) <= Len(path)
     /\ \A i \in 1..Len(home) : path[i] = home[i]
  THEN <<"~">> \o [i \in 1..(Len(path) - Len(home)) |-> path[i + Len(home)]]
  ELSE path

\* C15: native formatPath replaces a leading home directory by "~"; mode
\* full returns that path; mode basename returns the final segment of the
\* path; mode truncated returns the ellipsis, the separator and the last two
\* segments joined by the separator when the home-substituted path has more
\* than 2 segments, and the home-substituted path when it has 2 or fewer.
C15_NativePathModes ==
  fmBy = "formatPath" =>
    LET sub == HomeSubstituted(fmArgs.path, fmArgs.home)
    IN CASE fmArgs.mode = "full" -> fmOut = sub
         [] fmArgs.mode = "basename" ->
              SegmentStarts(fmArgs.path) # {} =>
                fmOut = LastSegment(fmArgs.path, 1)
         [] fmArgs.mode = "truncated" ->
              IF Cardinality(SegmentStarts(sub)) > 2
              THEN fmOut = <<Ellipsis, fmArgs.sep>> \o LastSegment(sub, 2)
                             \o <<fmArgs.sep>> \o LastSegment(sub, 1)
              ELSE fmOut = sub

C15_Witness ==
  /\ fmBy = "formatPath"
  /\ fmArgs.mode = "truncated"
  /\ fmArgs.home = <<"/", "h">>
  /\ fmArgs.path = <<"/", "h", "/", "a", "/", "h", "x", "/", "a">>
  /\ fmOut = <<Ellipsis, "/", "h", "x", "/", "a">>

\* Whether the text s is the decimal numeral of n.
IsNumeral(s, n) ==
  /\ s # <<>>
  /\ \A i \in 1..Len(s) : IsDigit(s[i])
  /\ (Len(s) > 1 => s[1] # "0")
  /\ DecimalValue(s, 0) = n

\* Whether the text s is the numeral of x, unit, the numeral of y, "m".
IsHoursMinutes(s, x, y) ==
  \E i \in 1..Len(s) :
    /\ s[i] = "h"
    /\ IsNumeral(SubSeq(s, 1, i - 1), x)
    /\ s[Len(s)] = "m"
    /\ IsNumeral(SubSeq(s, i + 1, Len(s) - 1), y)

IsMinutes(s, y) ==
  s # <<>> /\ s[Len(s)] = "m" /\ IsNumeral(SubSeq(s, 1, Len(s) - 1), y)

\* C16 as claimed: with minutes = floor(ms / 60000), formatDuration(ms) is
\* "XhYm" (X = floor(minutes / 60), Y = minutes mod 60) whenever the
\* duration is at least one hour and "Ym" otherwise.
C16_HoursAlwaysWithMinutes ==
  fmBy = "formatDuration" =>
    LET minutes == fmArgs.ms \div 60000
    IN IF minutes >= 60
       THEN IsHoursMinutes(fmOut, minutes \div 60, minutes % 60)
       ELSE IsMinutes(fmOut, minutes)

\* C16 as amended: a duration of an hour or more is "XhYm" when Y > 0 and
\* "Xh" when Y = 0; a shorter one is "Ym", "0m" under one minute.
C16_HoursThenMinutesUnlessZero ==
  fmBy = "formatDuration" =>
    LET minutes == fmArgs.ms \div 60000
        X       == minutes \div 60
        Y       == minutes % 60
    IN /\ (X >= 1 /\ Y > 0) => IsHoursMinutes(fmOut, X, Y)
       /\ (X >= 1 /\ Y = 0) =>
            fmOut[Len(fmOut)] = "h" /\ IsNumeral(SubSeq(fmOut, 1, Len(fmOut) - 1), X)
       /\ X = 0 => IsMinutes(fmOut, Y)
       /\ fmArgs.ms < 60000 => fmOut = <<"0", "m">>

C16_Witness ==
  /\ fmBy = "formatDuration"
  /\ fmArgs.ms = 7200000
  /\ fmOut = <<"2", "h">>

\* C17: formatTokenCount(n) is the numeral of n below 1,000; the numeral of
\* n / 1000 rounded to a whole number (half up: 1500 gives "2K") and "K"
\* from 1,000 up to 1,000,000; a numeral of tenths nearest to n / 1,000,000,
\* written with one decimal, and "M" from 1,000,000; formatTokenUsage is
\* "P% (current/max)" with each side formatted on its own.
C17_TokenCountSuffixes ==
  /\ fmBy = "formatTokenCount" =>
       LET n    == fmArgs.count
           text == SubSeq(fmOut, 1, Len(fmOut) - 1)
           unit == fmOut[Len(fmOut)]
       IN /\ n < 1000 => IsNumeral(fmOut, n)
          /\ (n >= 1000 /\ n < 1000000) =>
               /\ unit = "K"
               /\ \E k \in 1..1000 :
                    /\ IsNumeral(text, k)
                    /\ 1000 * k - 500 <= n /\ n < 1000 * k + 500
          /\ n >= 1000000 =>
               /\ unit = "M"
               /\ Len(text) >= 3 /\ text[Len(text) - 1] = "."
               /\ LET whole  == SubSeq(text, 1, Len(text) - 2)
                      tenths == 10 * DecimalValue(whole, 0)
                                  + DigitVal(text[Len(text)])
                  IN /\ IsNumeral(whole, DecimalValue(whole, 0))
                     /\ IsDigit(text[Len(text)])
                     /\ Abs(n - 100000 * tenths) <= 50000
          /\ n = 15000 => fmOut = <<"1", "5", "K">>
  /\ fmBy = "formatTokenUsage" =>
       LET u == fmArgs.usage
       IN /\ \E i, j, k \in 1..Len(fmOut) :
               /\ IsNumeral(SubSeq(fmOut, 1, i - 1), u.percentage)
               /\ SubSeq(fmOut, i, i + 2) = <<"%", " ", "(">>
               /\ SubSeq(fmOut, i + 3, j - 1) = formatTokenCount(u.current)
               /\ fmOut[j] = "/"
               /\ SubSeq(fmOut, j + 1, k - 1) = formatTokenCount(u.max)
               /\ fmOut[k] = ")" /\ k = Len(fmOut)
          /\ (u.current = 0 /\ u.max = 200000) =>
               fmOut = <<"0", "%", " ", "(", "0", "/", "2", "0", "0", "K", ")">>

C17_Witness ==
  /\ fmBy = "formatTokenCount"
  /\ fmArgs.count = 1500
  /\ fmOut = <<"2", "K">>

\* What a terminal shows of a text: its escape sequences left out.
IsEscape(c) ==
  c = RESET \/ \E name \in {"lightGray", "purple", "green", "red", "gray", "yellow"} :
                 c = ColorCode(name)

Shown(text) == SelectSeq(text, LAMBDA c : ~IsEscape(c))

\* C20: native formatBranch shows the branch alone when git.hasChanges is
\* false; when it is true it shows, after the branch, "*" when the dirty
\* indicator is on, then " +A" iff changes are on and A = staged.added +
\* unstaged.added > 0, " -D" iff changes are on and D = staged.deleted +
\* unstaged.deleted > 0, then " ~n" for the staged and for the unstaged file
\* count, each only when its toggle is on and the count is > 0.
C20_BranchMarkerAndCounts ==
  fmBy = "formatBranch" =>
    LET git    == fmArgs.git
        cfg    == fmArgs.gitConfig
        name   == IF cfg.showBranch THEN git.branch ELSE <<>>
        A      == git.staged.added + git.unstaged.added
        D      == git.staged.deleted + git.unstaged.deleted
        Item(on, sign, n) ==
          IF on /\ n > 0 THEN <<" ", sign>> \o NumberToString(n) ELSE <<>>
    IN IF ~git.hasChanges THEN Shown(fmOut) = name
       ELSE Shown(fmOut) =
              name \o (IF cfg.showDirtyIndicator THEN <<"*">> ELSE <<>>)
                \o Item(cfg.showChanges, "+", A)
                \o Item(cfg.showChanges, "-", D)
                \o Item(cfg.showStaged, "~", git.staged.files)
                \o Item(cfg.showUnstaged, "~", git.unstaged.files)

C20_Witness ==
  /\ fmBy = "formatBranch"
  /\ fmArgs.git.hasChanges
  /\ fmArgs.git.staged.added = 40 /\ fmArgs.git.unstaged.added = 2
  /\ Shown(fmOut) = <<"m", "a", "i", "n", "*", " ", "+", "4", "2", " ", "-", "1", "5",
                      " ", "~", "2", " ", "~", "1">>

(***************************************************************************)
(* The display of the hooks: getContextWarning, buildStatusline and        *)
(* createHookOutput on a GitInfo, FileStats, TokenUsage and configuration. *)
(***************************************************************************)

GitInfos ==
  [branch : {<<>>, <<"m", "a", "i", "n">>},
   relativePath : {<<>>, <<".">>, <<"a">>, <<"h", "/", "h", "x", "/", "a">>},
   dirty : BOOLEAN]

FileStatsValues ==
  { [insertions |-> 0, deletions |-> 0, modifications |-> 0],
    [insertions |-> 10, deletions |-> 5, modifications |-> 2] }

\* The usages calculateTokenUsage returns for a limit of 200000: every
\* percentage from 0 to 100.
DisplayUsages ==
  { [current |-> 2000 * p, max |-> 200000, percentage |-> p] : p \in Percentages }

DisplayConfigs ==
  { [DEFAULT_CONFIG EXCEPT !.showIcons = icons, !.progressBarWidth = width] :
      icons \in BOOLEAN, width \in {5, 20} }

InitDisplay ==
  /\ ProbeIdle
  /\ MjsIdle
  /\ GitIdle
  /\ TokenIdle
  /\ ConfigIdle
  /\ BarIdle
  /\ HookIdle
  /\ NativeIdle
  /\ FormatIdle
  /\ dsArgs \in [gitInfo : GitInfos, fileStats : FileStatsValues,
                 tokenUsage : DisplayUsages, config : DisplayConfigs,
                 eventName : {SessionStart}]
  /\ dsPc = "start"
  /\ dsDisplay = Null
  /\ dsOutput = Null

\* getContextWarning(tokenUsage), called on its own.
GetContextWarning ==
  /\ dsPc = "start"
  /\ dsPc' = "warned"
  /\ dsOutput' = [warning |-> getContextWarning(dsArgs.tokenUsage)]
  /\ UNCHANGED <<dsArgs, dsDisplay, NotDisplay>>

BuildStatusline ==
  /\ dsPc = "start"
  /\ dsPc' = "built"
  /\ dsDisplay' = buildStatusline(dsArgs.gitInfo, dsArgs.fileStats,
                                  dsArgs.tokenUsage, dsArgs.config)
  /\ UNCHANGED <<dsArgs, dsOutput, NotDisplay>>

CreateHookOutput ==
  /\ dsPc = "built"
  /\ dsPc' = "done"
  /\ dsOutput' = createHookOutput(dsDisplay, dsArgs.tokenUsage, dsArgs.eventName)
  /\ UNCHANGED <<dsArgs, dsDisplay, NotDisplay>>

NextDisplay == GetContextWarning \/ BuildStatusline \/ CreateHookOutput

SpecDisplay == InitDisplay /\ [][NextDisplay]_vars

\* C11: the context warning is the critical text iff percentage >= 90, the
\* caution text iff 75 <= percentage < 90 and null iff percentage < 75; the
\* envelope of createHookOutput has it as systemMessage, which is present
\* iff percentage >= 75, and its additionalContext never contains it.
C11_WarningOnlyInSystemMessage ==
  LET p == dsArgs.tokenUsage.percentage
  IN /\ dsPc = "warned" =>
          /\ dsOutput.warning = ContextCriticalText <=> p >= 90
          /\ dsOutput.warning = ContextLowText <=> (75 <= p /\ p < 90)
          /\ dsOutput.warning = Null <=> p < 75
     /\ dsPc = "done" =>
          /\ dsOutput.systemMessage # <<>> <=> p >= 75
          /\ p >= 90 =>
               Shown(dsOutput.systemMessage) = <<ContextCriticalText>>
          /\ (75 <= p /\ p < 90) =>
               Shown(dsOutput.systemMessage) = <<ContextLowText>>
          /\ \A i \in 1..Len(dsOutput.additionalContext) :
               dsOutput.additionalContext[i]
                 \notin {ContextCriticalText, ContextLowText}

C11_Witness ==
  /\ dsPc = "done"
  /\ dsArgs.tokenUsage.percentage = 92
  /\ Shown(dsOutput.systemMessage) = <<ContextCriticalText>>
  /\ dsOutput.additionalContext # <<>>

\* Where the i-th of the segments begins in their join, empty segments
\* taking no room and every other one followed by the separator.
RECURSIVE SegmentOffset(_, _)
SegmentOffset(segs, i) ==
  IF i = 1 THEN 0
  ELSE SegmentOffset(segs, i - 1)
         + (IF segs[i - 1] = <<>> THEN 0 ELSE Len(segs[i - 1]) + Len(Separator))

\* C18: `full` is the non-empty ones of branch, path, progressBar and
\* tokenInfo, in that order, with the separator between two of them and
\* nowhere else: it neither begins nor ends with the separator and has no
\* two separators in a row; the branch is empty when there is no branch.
C18_FullJoinsNonEmptySegments ==
  dsPc \in {"built", "done"} =>
    LET segs == <<dsDisplay.branch, dsDisplay.path, dsDisplay.progressBar,
                  dsDisplay.tokenInfo>>
        full == dsDisplay.full
        kept == {i \in 1..4 : segs[i] # <<>>}
        last == CHOOSE i \in kept : \A j \in kept : j <= i
    IN /\ dsArgs.gitInfo.branch = <<>> => dsDisplay.branch = <<>>
       /\ kept # {}
       /\ Len(full) = SegmentOffset(segs, last) + Len(segs[last])
       /\ \A i \in kept :
            /\ SubSeq(full, SegmentOffset(segs, i) + 1,
                      SegmentOffset(segs, i) + Len(segs[i])) = segs[i]
            /\ i # last =>
                 SubSeq(full, SegmentOffset(segs, i) + Len(segs[i]) + 1,
                        SegmentOffset(segs, i) + Len(segs[i]) + Len(Separator))
                   = Separator
       /\ ~StartsWith(full, Separator)
       /\ SubSeq(full, Len(full) - 1, Len(full)) # Separator
       /\ ~Includes(full, Separator \o Separator)

C18_Witness ==
  /\ dsPc = "built"
  /\ dsArgs.gitInfo.branch = <<>>
  /\ dsArgs.gitInfo.relativePath = <<"a">>
  /\ ~dsArgs.config.showIcons
  /\ dsDisplay.branch = <<>>
  /\ StartsWith(dsDisplay.full, <<"D", ":", " ", "~", "/", "a", " ", " ">>)

\* C19: in native main each field of the payload is resolved on its own:
\* workspace.current_dir, model.display_name, cost.total_cost_usd and
\* cost.total_duration_ms are used when the payload has them and replaced
\* by the process cwd, "Claude", 0 and 0 when it does not; a field that is
\* missing never discards one that is there.
C19_FieldsResolvedIndependently ==
  (ntPc = "done" /\ ~ntInput.null) =>
    /\ ntRawData.path =
         IF ntInput.workspace /\ Truthy(ntInput.current_dir)
         THEN ntInput.current_dir ELSE ProcessCwd
    /\ ntRawData.modelName =
         IF Truthy(ntInput.display_name) THEN ntInput.display_name
         ELSE <<"C", "l", "a", "u", "d", "e">>
    /\ ntRawData.cost =
         IF IsNaN(ntInput.total_cost_usd) THEN 0 ELSE ntInput.total_cost_usd
    /\ ntRawData.durationMs =
         IF IsNaN(ntInput.total_duration_ms) THEN 0 ELSE ntInput.total_duration_ms

(***************************************************************************)
(* getGitStatusSync, parseStats and countFiles, each called on its own.    *)
(***************************************************************************)

MaxFiles == 2
MaxDiffPieces == 3

Main == <<"m", "a", "i", "n">>

Changes ==
  { [added |-> 3, deleted |-> 1, binary |-> FALSE, path |-> <<"f">>],
    [added |-> 0, deleted |-> 0, binary |-> TRUE, path |-> <<"b">>] }

ChangeLists == UNION { [1..n -> Changes] : n \in 0..MaxFiles }

GitCommands ==
  { RevParseGitDir, BranchShowCurrent, DiffIndexQuiet, DiffIndexQuietCached,
    DiffNumstat, DiffCachedNumstat, DiffCachedNameOnly, DiffNameOnly }

BrokenSets ==
  { {}, {BranchShowCurrent}, {DiffIndexQuiet}, {DiffNumstat, DiffNameOnly},
    GitCommands }

GitWorlds ==
  [repo : BOOLEAN, head : BOOLEAN, branch : {Main, <<>>, NoGit},
   staged : ChangeLists, unstaged : ChangeLists, broken : BrokenSets]

DiffPieces ==
  { <<"5">>, <<"1", "2">>, <<"-">>, <<"-", "3">>, <<"\t">>, <<"\n">>, <<" ">>,
    <<"f">> }

DiffTexts ==
  { Concat(ps) : ps \in UNION { [1..n -> DiffPieces] : n \in 0..MaxDiffPieces } }

GitCalls ==
  [fn : {"getGitStatusSync"}, world : GitWorlds]
    \cup [fn : {"parseStats", "countFiles"}, diff : DiffTexts]

InitGit ==
  /\ ProbeIdle
  /\ MjsIdle
  /\ TokenIdle
  /\ ConfigIdle
  /\ BarIdle
  /\ HookIdle
  /\ NativeIdle
  /\ FormatIdle
  /\ DisplayIdle
  /\ gsArgs \in GitCalls
  /\ gsBy = "none"
  /\ gsOut = Null

GitReturns(fn, value) ==
  /\ gsBy = "none"
  /\ gsArgs.fn = fn
  /\ gsBy' = fn
  /\ gsOut' = value
  /\ UNCHANGED <<gsArgs, NotGit>>

GetGitStatusSync == GitReturns("getGitStatusSync", getGitStatusSync(gsArgs.world))

ParseStats == GitReturns("parseStats", parseStats(gsArgs.diff))

CountFiles == GitReturns("countFiles", [files |-> countFiles(gsArgs.diff)])

NextGit == GetGitStatusSync \/ ParseStats \/ CountFiles

SpecGit == InitGit /\ [][NextGit]_vars

\* The repository of a git world has no staged and no unstaged change.
IsClean(world) == world.staged = <<>> /\ world.unstaged = <<>>

DiffStatCommands ==
  {DiffNumstat, DiffCachedNumstat, DiffCachedNameOnly, DiffNameOnly}

AllCounts(status) ==
  { status.staged.added, status.staged.deleted, status.staged.files,
    status.unstaged.added, status.unstaged.deleted, status.unstaged.files }

\* The commands of `ran` before position i.
RanBefore(ran, i) == { ran[j] : j \in 1..(i - 1) }

\* C21: getGitStatusSync returns a GitStatus whatever commands fail; outside a
\* repository or in a clean one hasChanges is false and the six counts are 0;
\* a diff-stat command runs only after both dirty checks, one of which
\* reported a change; every count is a non-negative integer.
C21_CleanOrAbsentGivesZeroStatus ==
  gsBy = "getGitStatusSync" =>
    /\ {"branch", "hasChanges", "staged", "unstaged"} \subseteq DOMAIN gsOut
    /\ (~gsArgs.world.repo \/ IsClean(gsArgs.world)) =>
         /\ ~gsOut.hasChanges
         /\ AllCounts(gsOut) = {0}
    /\ \A i \in 1..Len(gsOut.ran) :
         gsOut.ran[i] \in DiffStatCommands =>
           /\ {DiffIndexQuiet, DiffIndexQuietCached} \subseteq RanBefore(gsOut.ran, i)
           /\ gsOut.hasChanges
    /\ \A n \in AllCounts(gsOut) : ~IsNaN(n) /\ n >= 0

\* The value a line of a diff gives for its k-th tab-separated field: 0 when
\* the field is missing or does not start with a number.
FieldCount(line, k) ==
  LET fields == SplitOn(line, {"\t"})
  IN IF k > Len(fields) \/ IsNaN(ParseInt(fields[k])) THEN 0
     ELSE ParseInt(fields[k])

RECURSIVE SumOfField(_, _)
SumOfField(lines, k) ==
  IF lines = <<>> THEN 0
  ELSE (IF Trim(Head(lines)) = <<>> THEN 0 ELSE FieldCount(Head(lines), k))
         + SumOfField(Tail(lines), k)

\* C28: parseStats skips blank lines, counts a non-numeric or missing added
\* or deleted field as 0, returns the sums of the per-line values, and both
\* sums are non-negative integers.
C28_ParseStatsDefaultsToZero ==
  gsBy = "parseStats" =>
    /\ gsOut.added = SumOfField(SplitOn(gsArgs.diff, {"\n"}), 1)
    /\ gsOut.deleted = SumOfField(SplitOn(gsArgs.diff, {"\n"}), 2)
    /\ ~IsNaN(gsOut.added) /\ gsOut.added >= 0
    /\ ~IsNaN(gsOut.deleted) /\ gsOut.deleted >= 0

\* C30: the git data main hands to the renderer is null exactly when the
\* working directory is outside a repository; inside one it carries the
\* branch (detached for a detached HEAD), the dirty flag and the counts of
\* the probe.
C30_GitDataNullIffNoRepository ==
  ntPc = "done" =>
    /\ ntRawData.git.null <=> ~ntWorld.git.repo
    /\ ntWorld.git.repo =>
         /\ ntRawData.git.branch =
              IF ntWorld.git.branch = <<>> THEN Detached ELSE ntWorld.git.branch
         /\ ntRawData.git.dirty = getGitStatusSync(ntWorld.git).hasChanges
         /\ ntRawData.git.staged = getGitStatusSync(ntWorld.git).staged
         /\ ntRawData.git.unstaged = getGitStatusSync(ntWorld.git).unstaged

\* The foreground escape sequences of a rendered bar.
ForegroundCodes(text, background) ==
  { text[i] : i \in 1..Len(text) }
    \ (BarGlyphs \cup {RESET, getProgressBarBackground(background)})

\* C22: with colorMode progressive the bar is colored gray below 50,
\* yellow for 50..69, orange for 70..89 and red from 90 on, four different
\* colors; with any other colorMode the bar has the color the same bar has
\* at percentage 0, whatever the percentage.
C22_ProgressiveTiersElseFixed ==
  pbBy = "formatProgressBar" =>
    LET p     == pbArgs.percentage
        codes == ForegroundCodes(pbBar.text, pbArgs.background)
        atZero == formatProgressBar(0, pbArgs.length, pbArgs.style,
                                    pbArgs.colorMode, pbArgs.background)
    IN /\ Cardinality({ColorCode("gray"), ColorCode("yellow"), ColorCode("orange"),
                       ColorCode("red")}) = 4
       /\ pbArgs.colorMode = "progressive" =>
            codes = { IF p < 50 THEN ColorCode("gray")
                      ELSE IF p <= 69 THEN ColorCode("yellow")
                      ELSE IF p <= 89 THEN ColorCode("orange")
                      ELSE ColorCode("red") }
       /\ pbArgs.colorMode # "progressive" =>
            /\ Cardinality(codes) = 1
            /\ codes = ForegroundCodes(atZero.text, pbArgs.background)

C22_Witness ==
  /\ pbBy = "formatProgressBar"
  /\ pbArgs.colorMode = "progressive"
  /\ pbArgs.percentage = 70
  /\ pbArgs.background = "dark"
  /\ pbArgs.length = 10
  /\ ForegroundCodes(pbBar.text, "dark") = {ColorCode("orange")}

\* C23: a progress bar of length 0 is the empty string, for every style,
\* color mode, background and percentage of 0..100.
C23_ZeroLengthIsEmptyString ==
  (pbBy = "formatProgressBar" /\ pbArgs.length = 0) => pbBar.text = <<>>

(***************************************************************************)
(* The statusline of the .mjs hooks.                                       *)
(***************************************************************************)

MaxTokenSteps == 210

\* Lengths of conversation_summary: every multiple of 4000 characters up to
\* past the 800,000 that fill the 200,000 tokens, and lengths next to them.
SummaryLengths ==
  { 4000 * k + d : k \in 0..MaxTokenSteps, d \in {0, 1} }

MjsGitWorlds ==
  [repo : BOOLEAN, branch : {<<"m", "a", "i", "n">>},
   prefix : {<<>>, <<"s", "r", "c", "/">>, <<"s", "r", "c", "/", "f", "/">>},
   dirty : BOOLEAN, throws : BOOLEAN]

InitMjs ==
  /\ ProbeIdle
  /\ TokenIdle
  /\ ConfigIdle
  /\ BarIdle
  /\ HookIdle
  /\ NativeIdle
  /\ FormatIdle
  /\ DisplayIdle
  /\ GitIdle
  /\ mjArgs \in [kind : {"session-start.mjs", "user-prompt-submit.mjs"},
                 length : SummaryLengths, world : MjsGitWorlds]
  /\ mjPc = "start"
  /\ mjOut = Null

MjsStatusline ==
  /\ mjPc = "start"
  /\ mjPc' = "written"
  /\ mjOut' = mjsStatusline(mjArgs.kind, mjArgs.length, mjArgs.world)
  /\ UNCHANGED <<mjArgs, NotMjs>>

NextMjs == MjsStatusline

SpecMjs == InitMjs /\ [][NextMjs]_vars

\* C24: as the README documents the algorithm, the bar of the hook has
\* floor((tokens / maxTokens) * width) filled cells and width - filled empty
\* ones, for every token count of 0..maxTokens.
C24_FilledIsFloorOfTokenShare ==
  mjPc = "written" =>
    LET tokens == mjOut.tokenUsage.current
        width  == Len(BarCells(mjOut.progressBar.text))
    IN /\ tokens \in 0..mjOut.tokenUsage.max
       /\ mjOut.progressBar.filled = (tokens * width) \div mjOut.tokenUsage.max
       /\ mjOut.progressBar.empty = width - mjOut.progressBar.filled

\* C25: the path of the statusline the .mjs hooks emit is "~" when the
\* working directory is the root of the repository and "~/" followed by
\* the path from the root otherwise, whatever getGitInfo returned.
C25_PathIsRelativeToRoot ==
  mjPc = "written" =>
    mjOut.relativePath =
      IF mjOut.gitInfo.relative = <<".">> THEN <<"~">>
      ELSE <<"~", "/">> \o mjOut.gitInfo.relative

\* C26: every run of a hook entry point writes exactly one envelope to
\* standard output, on the success path and on every failure path, wherever
\* in main the failure occurs: standard output holds a single JSON value.
C26_ExactlyOneEnvelope ==
  /\ hkPc = "done" => Len(hkStdout) = 1
  /\ Len(hkStdout) <= 1

\* The promise of readStdin is settled and stays as it is in this step.
StaysSettled ==
  ntRead = "settled" =>
    /\ ntRead' = "settled"
    /\ ntInput' = ntInput
    /\ ntRawData' = ntRawData
    /\ ntStdout' = ntStdout

\* The timer fires in this step after a chunk has arrived.
TimerFiresAfterData == ntTimer = "armed" /\ ntTimer' = "fired" /\ ntData # <<>>

\* C29: readStdin settles once, with the first of its outcomes, under every
\* interleaving of chunks, end event and timer: a settled promise keeps its
\* value, so the fallback stays when the end event follows the timer; the
\* timer does nothing once a chunk has arrived; and a value that is not null
\* is the parse of all the chunks received when the stream ended.
C29_ReadStdinSettlesOnce ==
  /\ [][StaysSettled]_vars
  /\ [][TimerFiresAfterData => UNCHANGED <<ntRead, ntInput, ntPc, ntRawData>>]_vars
  /\ [][(ntTimer = "armed" /\ ntTimer' = "fired" /\ ntData = <<>>
           /\ ntRead = "pending") => (ntRead' = "settled" /\ ntInput'.null)]_vars
  /\ [](ntRead = "settled" =>
          IF ntInput.null
          THEN (ntTimer = "fired" \/ (ntEnded /\ (~JSONParse(ntData).ok
                                                  \/ JSONParse(ntData).value.null)))
          ELSE /\ ntEnded
               /\ ntHost.pending = <<>>
               /\ JSONParse(ntData).ok
               /\ ntInput = JSONParse(ntData).value)

\* The timer resolved null, then the chunks and the end event came with a
\* JSON payload: main has used the fallback.
C29_Witness ==
  /\ ntRead = "settled"
  /\ ntInput.null
  /\ ntTimer = "fired"
  /\ ntEnded
  /\ JSONParse(ntData).ok
  /\ ~JSONParse(ntData).value.null
  /\ JSONParse(ntData).value.workspace
  /\ ntPc = "done"
  /\ ntRawData.path = ProcessCwd

(***************************************************************************)
(* The git probes of the hook entry points: main awaits                    *)
(* Promise.all([getGitInfo(cwd).catch(...), getFileStats(cwd).catch(...)]) *)
(* and getGitInfo awaits isGitRepo and then Promise.all of its probes.     *)
(* Every git command is a child process that closes at a time of its own.  *)
(***************************************************************************)

\* The root of the repository, and a directory below it.
RepoRoot == <<"/", "w">>
RepoSub == RepoRoot \o <<"/", "s">>

\* working_directory given as the array ["/w"] in the JSON of the host: the
\* command line spawn joins for the shell reads it as /w, so git runs in
\* the root of the repository.
ArrayValue == <<"array">>

\* The promises getGitInfo hands to Promise.all that run git commands;
\* currentPath is Promise.resolve(cwd), fulfilled from the start.
Probes == {"branch", "root", "relativePath", "dirty", "staged", "counts"}

\* getGitRoot: the toplevel git prints, or cwd.
getGitRoot(world, cwd) == IF world.repo THEN RepoRoot ELSE cwd

\* getRelativePath after its await of getGitRoot: `current.replace` is not
\* a function when cwd is not a string, and the promise rejects.
getRelativePath(world, cwd) ==
  LET root == getGitRoot(world, cwd)
  IN  IF root = cwd THEN [rejects |-> FALSE, value |-> <<".">>]
      ELSE IF cwd = ArrayValue THEN [rejects |-> TRUE, value |-> <<>>]
      ELSE IF StartsWith(cwd, root)
      THEN LET relative == SubSeq(cwd, Len(root) + 1, Len(cwd))
               stripped == IF StartsWith(relative, <<"/">>) THEN Tail(relative)
                           ELSE relative
           IN  [rejects |-> FALSE,
                value |-> IF stripped = <<>> THEN <<".">> ELSE stripped]
      ELSE [rejects |-> FALSE, value |-> cwd]

\* The value each probe is fulfilled with.
ProbeValue(p, world, cwd) ==
  CASE p = "branch" -> <<"m", "a", "i", "n">>
    [] p = "root" -> getGitRoot(world, cwd)
    [] p = "relativePath" -> getRelativePath(world, cwd).value
    [] p = "dirty" -> <<world.dirty>>
    [] p = "staged" -> <<FALSE>>
    [] p = "counts" -> <<0, 0>>

\* The value that stands for each probe in the GitInfo main substitutes when
\* getGitInfo rejects, and in the one getGitInfo returns outside a
\* repository.
ProbeDefault(p, cwd) ==
  CASE p = "branch" -> <<>>
    [] p = "root" -> cwd
    [] p = "relativePath" -> <<".">>
    [] p = "dirty" -> <<FALSE>>
    [] p = "staged" -> <<FALSE>>
    [] p = "counts" -> <<0, 0>>

DefaultProbeGitInfo(cwd) == [p \in Probes |-> ProbeDefault(p, cwd)]

\* What `await getGitInfo(cwd).catch(...)` gives main.
AwaitedGitInfo(info, world, cwd) ==
  IF info = "fulfilled" /\ world.repo
  THEN [p \in Probes |-> ProbeValue(p, world, cwd)]
  ELSE DefaultProbeGitInfo(cwd)

Settled(status) == status \in {"fulfilled", "rejected"}

\* Promise.all of getGitInfo: rejected as soon as one probe rejects,
\* fulfilled once every probe is fulfilled.
PromiseAll(probe) ==
  IF \E p \in Probes : probe[p] = "rejected" THEN "rejected"
  ELSE IF \A p \in Probes : probe[p] = "fulfilled" THEN "fulfilled"
  ELSE "all"

\* The awaits of getFileStats, one after the other.
StatsSteps ==
  <<"isGitRepo", "diff", "cached", "changed", "changedCached", "fulfilled">>

InitProbe ==
  /\ TokenIdle
  /\ ConfigIdle
  /\ BarIdle
  /\ HookIdle
  /\ NativeIdle
  /\ FormatIdle
  /\ DisplayIdle
  /\ GitIdle
  /\ MjsIdle
  /\ prCwd \in {RepoRoot, RepoSub, ArrayValue}
  /\ prWorld \in [repo : BOOLEAN, dirty : BOOLEAN]
  /\ prInfo = "isGitRepo"
  /\ prProbe = [p \in Probes |-> "idle"]
  /\ prStats = "isGitRepo"
  /\ prBuilt = [called |-> FALSE]

\* getGitInfo: `if (!(await isGitRepo(cwd)))` returns the defaults, else the
\* probes start together.
GitInfoRepoCheck ==
  /\ prInfo = "isGitRepo"
  /\ IF prWorld.repo
     THEN /\ prInfo' = "all"
          /\ prProbe' = [p \in Probes |-> "pending"]
     ELSE /\ prInfo' = "fulfilled"
          /\ UNCHANGED prProbe
  /\ UNCHANGED <<prCwd, prWorld, prStats, prBuilt, NotProbe>>

\* The git command a probe awaits closes: getCommitCount goes on to its
\* second command, getRelativePath runs the rest of its body, the others
\* return; Promise.all settles getGitInfo when it can.
ProbeSettles(p) ==
  /\ prProbe[p] \in {"pending", "second"}
  /\ LET status ==
           IF p = "counts" /\ prProbe[p] = "pending" THEN "second"
           ELSE IF p = "relativePath" /\ getRelativePath(prWorld, prCwd).rejects
           THEN "rejected"
           ELSE "fulfilled"
         probe == [prProbe EXCEPT ![p] = status]
     IN  /\ prProbe' = probe
         /\ prInfo' = IF prInfo = "all" THEN PromiseAll(probe) ELSE prInfo
  /\ UNCHANGED <<prCwd, prWorld, prStats, prBuilt, NotProbe>>

\* getFileStats: the command it awaits closes; outside a repository it
\* returns after isGitRepo.
FileStatsStep ==
  /\ prStats # "fulfilled"
  /\ prStats' = IF prStats = "isGitRepo" /\ ~prWorld.repo THEN "fulfilled"
                ELSE LET i == CHOOSE k \in 1..Len(StatsSteps) :
                                 StatsSteps[k] = prStats
                     IN  StatsSteps[i + 1]
  /\ UNCHANGED <<prCwd, prWorld, prInfo, prProbe, prBuilt, NotProbe>>

\* main after its await of Promise.all: both promises have settled, a
\* rejected getGitInfo is replaced by the defaults, and buildStatusline is
\* called.
ComposeAfterJoin ==
  /\ ~prBuilt.called
  /\ Settled(prInfo)
  /\ prStats = "fulfilled"
  /\ prBuilt' = [called |-> TRUE,
                 gitInfo |-> AwaitedGitInfo(prInfo, prWorld, prCwd),
                 fileStats |-> FileStatsOf(IF prWorld.repo THEN "repo"
                                           ELSE "no-repo")]
  /\ UNCHANGED <<prCwd, prWorld, prInfo, prProbe, prStats, NotProbe>>

NextProbe ==
  \/ GitInfoRepoCheck
  \/ \E p \in Probes : ProbeSettles(p)
  \/ FileStatsStep
  \/ ComposeAfterJoin

SpecProbe == InitProbe /\ [][NextProbe]_vars

\* buildStatusline has run only after getGitInfo and getFileStats settled.
OuterJoined == prBuilt.called => Settled(prInfo) /\ prStats = "fulfilled"

\* buildStatusline has run only after every probe that was started settled.
InnerJoined ==
  prBuilt.called => \A p \in Probes : prProbe[p] \notin {"pending", "second"}

\* The GitInfo buildStatusline got holds, for each probe, the value of the
\* probe, or its default when the probe rejected or never ran.
RejectedReplaced ==
  prBuilt.called =>
    \A p \in Probes :
      prBuilt.gitInfo[p] = IF prProbe[p] = "fulfilled"
                           THEN ProbeValue(p, prWorld, prCwd)
                           ELSE ProbeDefault(p, prCwd)

\* C27: buildStatusline runs only after getGitInfo and getFileStats have
\* settled and, inside getGitInfo, only after all its probes have settled,
\* whatever the order the probes complete in; a probe that rejects is
\* replaced by its default value.
C27_ProbesJoinedBeforeComposition ==
  /\ OuterJoined
  /\ InnerJoined
  /\ RejectedReplaced

====
